---------------------------- MODULE Spec2Model ----------------------------
(***************************************************************************)
(* Model of the command interpretation and automation engine of           *)
(* smart_home_assistant.py: the device registry, the context's power      *)
(* aggregate, the response cache, the fallback matcher, the device        *)
(* controller, the scene engine and the background loops.                 *)
(*                                                                         *)
(* Python strings that the program inspects character by character are    *)
(* tuples of one-character strings; dictionary keys (device names, scene  *)
(* names, intent kinds) are TLA+ strings, and Chars gives their text.     *)
(***************************************************************************)
EXTENDS Integers, Sequences, FiniteSets, TLC

(* ------------------------------ bounds --------------------------------- *)
\* longest device-name list handed to the controller by a direct caller
MaxLen == 2
\* number of request-handler threads running beside the background loops
NumCallers == 2
\* controller calls each request-handler thread makes
MaxCalls == 1
\* commands handled in a run of the command pipeline
MaxCommands == 2

\* the number of commands with texts of their own in a long run of
\* commands
MaxStores == 102

\* the number of commands that repeat an earlier text
MaxHits == 1

\* the number of iterations of the context updater in a run of them
MaxCycles == 3

(* ------------------------------- state --------------------------------- *)
VARIABLES
  state,                \* device.state of every device
  last_changed,         \* device.last_changed of every device
  power_usage,          \* context['power_usage']
  temperature,          \* context['temperature']
  performance_stats,    \* the counters of self.performance_stats
  gpio_simulation_mode, \* self._gpio_simulation_mode
  now,                  \* the clock read by datetime.now()
  running,              \* FALSE once main() has run cleanup() on its way out
  last_op,              \* the handler that ran last, with its scene, direction or on/off argument
  caller,               \* per request thread: its place in _control_devices and that call's locals
  updater,              \* the _context_updater thread: its place in the loop and its locals
  reader,               \* the api_status thread: its place and what it has read
  overlap,              \* TRUE once two calls in progress at the same time named a common device
  response_cache,       \* self.response_cache, as the list of its items in insertion order
  history,              \* the commands handled so far: input, model outcome, intent, text returned
  index_keys,           \* the keys the defaultdicts devices_by_room and devices_by_type hold
  command_queue,        \* self.command_queue, oldest item first
  processor,            \* the _command_processor thread: its place in the loop and its command
  pump,                 \* the _schedule_checker thread: its place in the loop
  drained               \* the commands the processor has taken off the queue, with what became of them

(* ------------------------- static configuration ------------------------ *)
\* insertion order of the self.devices dictionary
DeviceOrder ==
  <<"living_room_light",
    "living_room_fan",
    "bedroom_light",
    "bedroom_ac",
    "bedroom_heater",
    "kitchen_light",
    "kitchen_exhaust",
    "front_door_lock",
    "security_alarm",
    "garden_light",
    "smart_outlet_1">>

Devices == {DeviceOrder[i] : i \in 1..Len(DeviceOrder)}

device_type ==
  [d \in Devices |->
     CASE d = "living_room_light" -> "light"
       [] d = "living_room_fan" -> "fan"
       [] d = "bedroom_light" -> "light"
       [] d = "bedroom_ac" -> "ac"
       [] d = "bedroom_heater" -> "heater"
       [] d = "kitchen_light" -> "light"
       [] d = "kitchen_exhaust" -> "fan"
       [] d = "front_door_lock" -> "door_lock"
       [] d = "security_alarm" -> "alarm"
       [] d = "garden_light" -> "light"
       [] d = "smart_outlet_1" -> "outlet"]

room ==
  [d \in Devices |->
     CASE d = "living_room_light" -> "living_room"
       [] d = "living_room_fan" -> "living_room"
       [] d = "bedroom_light" -> "bedroom"
       [] d = "bedroom_ac" -> "bedroom"
       [] d = "bedroom_heater" -> "bedroom"
       [] d = "kitchen_light" -> "kitchen"
       [] d = "kitchen_exhaust" -> "kitchen"
       [] d = "front_door_lock" -> "entrance"
       [] d = "security_alarm" -> "general"
       [] d = "garden_light" -> "outdoor"
       [] d = "smart_outlet_1" -> "general"]

power_consumption ==
  [d \in Devices |->
     CASE d = "living_room_light" -> 60
       [] d = "living_room_fan" -> 75
       [] d = "bedroom_light" -> 40
       [] d = "bedroom_ac" -> 1200
       [] d = "bedroom_heater" -> 1500
       [] d = "kitchen_light" -> 80
       [] d = "kitchen_exhaust" -> 30
       [] d = "front_door_lock" -> 5
       [] d = "security_alarm" -> 10
       [] d = "garden_light" -> 100
       [] d = "smart_outlet_1" -> 0]

\* the alias strings of each device, in list order
aliases ==
  [d \in Devices |->
     CASE d = "living_room_light" ->
            <<<<"l","i","v","i","n","g"," ","r","o","o","m"," ","l","i","g","h","t">>,
              <<"m","a","i","n"," ","l","i","g","h","t">>,
              <<"l","o","u","n","g","e"," ","l","i","g","h","t">>>>
       [] d = "living_room_fan" ->
            <<<<"l","i","v","i","n","g"," ","r","o","o","m"," ","f","a","n">>,
              <<"m","a","i","n"," ","f","a","n">>>>
       [] d = "bedroom_light" ->
            <<<<"b","e","d","r","o","o","m"," ","l","i","g","h","t">>,
              <<"b","e","d"," ","l","i","g","h","t">>>>
       [] d = "bedroom_ac" ->
            <<<<"b","e","d","r","o","o","m"," ","a","c">>,
              <<"b","e","d","r","o","o","m"," ","a","i","r"," ","c","o","n","d","i","t","i","o","n","e","r">>>>
       [] d = "bedroom_heater" ->
            <<<<"h","e","a","t","e","r">>,
              <<"b","e","d","r","o","o","m"," ","h","e","a","t","e","r">>>>
       [] d = "kitchen_light" ->
            <<<<"k","i","t","c","h","e","n"," ","l","i","g","h","t">>>>
       [] d = "kitchen_exhaust" ->
            <<<<"e","x","h","a","u","s","t"," ","f","a","n">>,
              <<"k","i","t","c","h","e","n"," ","f","a","n">>>>
       [] d = "front_door_lock" ->
            <<<<"f","r","o","n","t"," ","d","o","o","r">>,
              <<"m","a","i","n"," ","d","o","o","r">>,
              <<"d","o","o","r"," ","l","o","c","k">>>>
       [] d = "security_alarm" ->
            <<<<"a","l","a","r","m">>,
              <<"s","e","c","u","r","i","t","y">>>>
       [] d = "garden_light" ->
            <<<<"g","a","r","d","e","n">>,
              <<"o","u","t","d","o","o","r"," ","l","i","g","h","t">>,
              <<"y","a","r","d"," ","l","i","g","h","t">>>>
       [] d = "smart_outlet_1" ->
            <<<<"o","u","t","l","e","t"," ","1">>,
              <<"p","l","u","g"," ","1">>>>]

\* thresholds['power_limit']
power_limit == 3000

\* insertion order of the self.scenes dictionary
SceneOrder == <<"movie_night", "dinner", "sleep", "wake_up", "away">>

SceneNames == {SceneOrder[i] : i \in 1..Len(SceneOrder)}

\* scene['devices'] as the ordered items of the dictionary, scene['description']
scenes ==
  [s \in SceneNames |->
     CASE s = "movie_night" ->
            [devices |-> <<<<"living_room_light", FALSE>>, <<"kitchen_light", FALSE>>, <<"living_room_fan", TRUE>>>>,
             description |-> <<"D","i","m","s"," ","l","i","g","h","t","s"," ","f","o","r"," ","m","o","v","i","e"," ","w","a","t","c","h","i","n","g">>]
       [] s = "dinner" ->
            [devices |-> <<<<"kitchen_light", TRUE>>, <<"kitchen_exhaust", TRUE>>, <<"living_room_light", TRUE>>>>,
             description |-> <<"B","r","i","g","h","t"," ","k","i","t","c","h","e","n"," ","f","o","r"," ","c","o","o","k","i","n","g">>]
       [] s = "sleep" ->
            [devices |-> <<<<"bedroom_light", FALSE>>, <<"bedroom_ac", TRUE>>, <<"living_room_light", FALSE>>, <<"kitchen_light", FALSE>>, <<"garden_light", FALSE>>, <<"security_alarm", TRUE>>>>,
             description |-> <<"N","i","g","h","t","t","i","m","e"," ","s","l","e","e","p"," ","m","o","d","e">>]
       [] s = "wake_up" ->
            [devices |-> <<<<"bedroom_light", TRUE>>, <<"kitchen_light", TRUE>>, <<"security_alarm", FALSE>>>>,
             description |-> <<"M","o","r","n","i","n","g"," ","w","a","k","e"," ","u","p"," ","r","o","u","t","i","n","e">>]
       [] s = "away" ->
            [devices |-> <<<<"all_lights", FALSE>>, <<"security_alarm", TRUE>>, <<"front_door_lock", TRUE>>>>,
             description |-> <<"S","e","c","u","r","i","t","y"," ","m","o","d","e"," ","w","h","e","n"," ","a","w","a","y">>]]

\* the room labels of the registry
Rooms == {room[d] : d \in Devices}

\* the intents of the keyword table of the matcher
PatternIntents == {"turn_on", "turn_off", "toggle"}

\* the text of every string that is used as a dictionary key
Chars ==
  [k \in Devices \cup SceneNames \cup {"all_lights"} \cup Rooms \cup PatternIntents |->
     CASE k = "living_room_light" -> <<"l","i","v","i","n","g","_","r","o","o","m","_","l","i","g","h","t">>
       [] k = "living_room_fan" -> <<"l","i","v","i","n","g","_","r","o","o","m","_","f","a","n">>
       [] k = "bedroom_light" -> <<"b","e","d","r","o","o","m","_","l","i","g","h","t">>
       [] k = "bedroom_ac" -> <<"b","e","d","r","o","o","m","_","a","c">>
       [] k = "bedroom_heater" -> <<"b","e","d","r","o","o","m","_","h","e","a","t","e","r">>
       [] k = "kitchen_light" -> <<"k","i","t","c","h","e","n","_","l","i","g","h","t">>
       [] k = "kitchen_exhaust" -> <<"k","i","t","c","h","e","n","_","e","x","h","a","u","s","t">>
       [] k = "front_door_lock" -> <<"f","r","o","n","t","_","d","o","o","r","_","l","o","c","k">>
       [] k = "security_alarm" -> <<"s","e","c","u","r","i","t","y","_","a","l","a","r","m">>
       [] k = "garden_light" -> <<"g","a","r","d","e","n","_","l","i","g","h","t">>
       [] k = "smart_outlet_1" -> <<"s","m","a","r","t","_","o","u","t","l","e","t","_","1">>
       [] k = "movie_night" -> <<"m","o","v","i","e","_","n","i","g","h","t">>
       [] k = "dinner" -> <<"d","i","n","n","e","r">>
       [] k = "sleep" -> <<"s","l","e","e","p">>
       [] k = "wake_up" -> <<"w","a","k","e","_","u","p">>
       [] k = "away" -> <<"a","w","a","y">>
       [] k = "all_lights" -> <<"a","l","l","_","l","i","g","h","t","s">>
       [] k = "living_room" -> <<"l","i","v","i","n","g","_","r","o","o","m">>
       [] k = "bedroom" -> <<"b","e","d","r","o","o","m">>
       [] k = "kitchen" -> <<"k","i","t","c","h","e","n">>
       [] k = "outdoor" -> <<"o","u","t","d","o","o","r">>
       [] k = "entrance" -> <<"e","n","t","r","a","n","c","e">>
       [] k = "general" -> <<"g","e","n","e","r","a","l">>
       [] k = "turn_on" -> <<"t","u","r","n","_","o","n">>
       [] k = "turn_off" -> <<"t","u","r","n","_","o","f","f">>
       [] k = "toggle" -> <<"t","o","g","g","l","e">>]

(* ------------------------- literal texts ------------------------------ *)
\* the string literals of the handlers, character by character
STR ==
  [
   Turned |->
     <<"T","u","r","n","e","d"," ">>,
   on |->
     <<"o","n">>,
   off |->
     <<"o","f","f">>,
   PowerChange |->
     <<" ","(","P","o","w","e","r"," ","c","h","a","n","g","e",":"," ">>,
   ExceedsLimit |->
     <<"W",")"," ","e","x","c","e","e","d","s"," ","l","i","m","i","t","!">>,
   NoDevicesChanged |->
     <<"N","o"," ","d","e","v","i","c","e","s"," ","w","e","r","e"," ","c","h","a","n","g","e","d",".">>,
   \* "\n" + WARNING SIGN + VARIATION SELECTOR-16 + "  Warning: Power usage ("
   Warning |->
     <<"\n","U+26A0","U+FE0F">> \o <<" "," ","W","a","r","n","i","n","g",":"," ","P","o","w","e","r"," ","u","s","a","g","e"," ","(">>,
   WhichDevice |->
     <<"W","h","i","c","h"," ","d","e","v","i","c","e"," ","w","o","u","l","d"," ","y","o","u"," ","l","i","k","e"," ","t","o"," ","t","o","g","g","l","e","?">>,
   is_now |->
     <<" ","i","s"," ","n","o","w"," ">>,
   ON |->
     <<"O","N">>,
   OFF |->
     <<"O","F","F">>,
   CouldNotFind |->
     <<"C","o","u","l","d"," ","n","o","t"," ","f","i","n","d"," ","t","h","e"," ","s","p","e","c","i","f","i","e","d"," ","d","e","v","i","c","e","s",".">>,
   UnknownScene |->
     <<"U","n","k","n","o","w","n"," ","s","c","e","n","e","."," ","A","v","a","i","l","a","b","l","e",":"," ">>,
   Scene |->
     <<"S","c","e","n","e"," ","'">>,
   activated |->
     <<"'"," ","a","c","t","i","v","a","t","e","d",":"," ">>,
   Heating |->
     <<"H","e","a","t","i","n","g"," ","m","o","d","e"," ","a","c","t","i","v","a","t","e","d","."," ","C","u","r","r","e","n","t"," ","t","e","m","p","e","r","a","t","u","r","e",":"," ">>,
   Cooling |->
     <<"C","o","o","l","i","n","g"," ","m","o","d","e"," ","a","c","t","i","v","a","t","e","d","."," ","C","u","r","r","e","n","t"," ","t","e","m","p","e","r","a","t","u","r","e",":"," ">>,
   PleaseSpecify |->
     <<"P","l","e","a","s","e"," ","s","p","e","c","i","f","y"," ","'","i","n","c","r","e","a","s","e","'"," ","o","r"," ","'","d","e","c","r","e","a","s","e","'"," ","f","o","r"," ","t","e","m","p","e","r","a","t","u","r","e"," ","c","o","n","t","r","o","l",".">>,
   \* DEGREE SIGN + "F"
   DegF |->
     <<"U+00B0","F">>,
   Activating |->
     <<"A","c","t","i","v","a","t","i","n","g"," ">>,
   scene |->
     <<" ","s","c","e","n","e">>,
   PatternMatchFor |->
     <<"P","a","t","t","e","r","n"," ","m","a","t","c","h"," ","f","o","r"," ">>,
   RoomBased |->
     <<"R","o","o","m","-","b","a","s","e","d"," ","c","o","m","m","a","n","d"," ","f","o","r"," ">>,
   UserFeelsHot |->
     <<"U","s","e","r"," ","f","e","e","l","s"," ","h","o","t">>,
   UserFeelsCold |->
     <<"U","s","e","r"," ","f","e","e","l","s"," ","c","o","l","d">>,
   StatusCheck |->
     <<"S","t","a","t","u","s"," ","c","h","e","c","k"," ","r","e","q","u","e","s","t">>,
   NoPattern |->
     <<"N","o"," ","p","a","t","t","e","r","n"," ","m","a","t","c","h","e","d">>,
   Clarify |->
     <<"C","o","u","l","d"," ","y","o","u"," ","p","l","e","a","s","e"," ","c","l","a","r","i","f","y","?">>,
   Understood |->
     <<"I"," ","u","n","d","e","r","s","t","o","o","d"," ","t","h","e"," ","i","n","t","e","n","t"," ","'">>,
   DontKnow |->
     <<"'"," ","b","u","t"," ","d","o","n","'","t"," ","k","n","o","w"," ","h","o","w"," ","t","o"," ","h","a","n","d","l","e"," ","i","t"," ","y","e","t",".">>,
   ReasonTurnOn |->
     <<"T","u","r","n","i","n","g"," ","o","n"," ","t","h","e"," ","k","i","t","c","h","e","n"," ","l","i","g","h","t",".">>,
   ReasonTurnOff |->
     <<"T","u","r","n","i","n","g"," ","t","h","o","s","e"," ","o","f","f",".">>,
   ReasonSchedule |->
     <<"S","c","h","e","d","u","l","i","n","g"," ","t","h","e"," ","l","i","g","h","t","s",".">>,
   ReasonUnknown |->
     <<"T","h","a","t"," ","i","s"," ","n","o","t"," ","s","o","m","e","t","h","i","n","g"," ","t","h","e"," ","h","o","u","s","e"," ","c","a","n"," ","d","o",".">>,
   ReasonClarify |->
     <<"W","h","i","c","h"," ","l","i","g","h","t"," ","d","o"," ","y","o","u"," ","m","e","a","n","?">>,
   SpaceON |->
     <<" ","O","N">>,
   AllDevicesOff |->
     <<"A","l","l"," ","d","e","v","i","c","e","s"," ","O","F","F">>,
   WSlash |->
     <<"W"," ","/"," ">>,
   Outside |->
     <<" ","(","O","u","t","s","i","d","e",":"," ">>,
   SleepMode |->
     <<"S","l","e","e","p"," ","M","o","d","e">>,
   VacationMode |->
     <<"V","a","c","a","t","i","o","n"," ","M","o","d","e">>,
   \* HOUSE BUILDING + " Smart Home Status Report\n"
   ReportHead |->
     <<"U+1F3E0">> \o <<" ","S","m","a","r","t"," ","H","o","m","e"," ","S","t","a","t","u","s"," ","R","e","p","o","r","t","\n">>,
   \* HIGH VOLTAGE SIGN + " Power Usage: "
   PowerUsage |->
     <<"U+26A1">> \o <<" ","P","o","w","e","r"," ","U","s","a","g","e",":"," ">>,
   \* THERMOMETER + VARIATION SELECTOR-16 + "  Temperature: "
   Temperature |->
     <<"U+1F321","U+FE0F">> \o <<" "," ","T","e","m","p","e","r","a","t","u","r","e",":"," ">>,
   \* DROPLET + " Humidity: "
   Humidity |->
     <<"U+1F4A7">> \o <<" ","H","u","m","i","d","i","t","y",":"," ">>,
   \* ROUND PUSHPIN + " "
   Pin |->
     <<"U+1F4CD">> \o <<" ">>,
   \* "\n" + LOCK + " Security: ARMED"
   SecurityArmed |->
     <<"\n","U+1F512">> \o <<" ","S","e","c","u","r","i","t","y",":"," ","A","R","M","E","D">>,
   \* WRENCH + " Active Modes: "
   ActiveModes |->
     <<"U+1F527">> \o <<" ","A","c","t","i","v","e"," ","M","o","d","e","s",":"," ">>]

(* ----------------------------- text helpers ---------------------------- *)
\* the set of elements of a list
Range(s) == {s[i] : i \in 1..Len(s)}

\* str.replace(old, new) for one-character old and new
Replace(s, old, new) == [i \in 1..Len(s) |-> IF s[i] = old THEN new ELSE s[i]]

\* the Python test "kw in text" on strings
Contains(text, kw) ==
  \E i \in 0..(Len(text) - Len(kw)) : SubSeq(text, i + 1, i + Len(kw)) = kw

\* sep.join(parts)
RECURSIVE Join(_, _)
Join(parts, sep) ==
  IF parts = <<>> THEN <<>>
  ELSE IF Len(parts) = 1 THEN parts[1]
  ELSE parts[1] \o sep \o Join(Tail(parts), sep)

Digit == <<"0","1","2","3","4","5","6","7","8","9">>

\* the decimal digits of a natural number
RECURSIVE Digits(_)
Digits(n) == IF n < 10 THEN <<Digit[n + 1]>> ELSE Digits(n \div 10) \o <<Digit[(n % 10) + 1]>>

\* the format spec {n:.0f} on a whole number
Format0f(n) == IF n < 0 THEN <<"-">> \o Digits(-n) ELSE Digits(n)

\* the format spec {n:+.0f} on a whole number
FormatSigned0f(n) == IF n < 0 THEN <<"-">> \o Digits(-n) ELSE <<"+">> \o Digits(n)

\* "d[k]" on a defaultdict, as the keys it holds afterwards: a key it
\* lacks is inserted
defaultdict_lookup(keys, k) == keys \cup {k}

(* --------------------------- derived indexes --------------------------- *)
\* self.devices_by_type[t]: the names of the devices of type t, in registry order
devices_by_type(t) == SelectSeq(DeviceOrder, LAMBDA d : device_type[d] = t)

\* self.devices_by_room[r]: the names of the devices of room r, in registry order
devices_by_room(r) == SelectSeq(DeviceOrder, LAMBDA d : room[d] = r)

\* sum(d.power_consumption for d in self.devices.values() if d.state)
RECURSIVE SumOn(_, _)
SumOn(st, i) ==
  IF i = 0 THEN 0
  ELSE SumOn(st, i - 1) + (IF st[DeviceOrder[i]] THEN power_consumption[DeviceOrder[i]] ELSE 0)

total_power(st) == SumOn(st, Len(DeviceOrder))

(* --------------------------- device controller ------------------------- *)
(* A world w is the shared mutable data a handler works on:               *)
(* [state, last_changed, power_usage].  Every handler is two operators:   *)
(* the world it leaves and the text it returns.                           *)

\* the loop pass without its test "device.state != state": a device that
\* is already in the desired state is counted again
control_step_untested(acc, device_name, desired, t) ==
  IF device_name \notin Devices THEN acc
  ELSE [state |-> [acc.state EXCEPT ![device_name] = desired],
        last_changed |-> [acc.last_changed EXCEPT ![device_name] = t],
        total_power_change |->
            acc.total_power_change
              + (IF desired THEN power_consumption[device_name]
                            ELSE 0 - power_consumption[device_name]),
        responses |-> Append(acc.responses, device_name)]

\* the loop pass that stamps a device it finds in the desired state
control_step_restamped(acc, device_name, desired, t) ==
  IF device_name \notin Devices THEN acc
  ELSE IF acc.state[device_name] # desired
       THEN [state |-> [acc.state EXCEPT ![device_name] = desired],
             last_changed |-> [acc.last_changed EXCEPT ![device_name] = t],
             total_power_change |->
                 acc.total_power_change
                   + (IF desired THEN power_consumption[device_name]
                                 ELSE 0 - power_consumption[device_name]),
             responses |-> Append(acc.responses, device_name)]
       ELSE [acc EXCEPT !.last_changed[device_name] = t]

\* one pass of the for loop of _control_devices; t is datetime.now();
\* responses collects the names whose display text the code appends
control_step(acc, device_name, desired, t) ==
  IF device_name \notin Devices THEN acc
  ELSE IF acc.state[device_name] # desired
       THEN [state |-> [acc.state EXCEPT ![device_name] = desired],
             last_changed |-> [acc.last_changed EXCEPT ![device_name] = t],
             total_power_change |->
                 acc.total_power_change
                   + (IF desired THEN power_consumption[device_name]
                                 ELSE 0 - power_consumption[device_name]),
             responses |-> Append(acc.responses, device_name)]
       ELSE acc

\* the for loop of _control_devices, were a name the registry lacks to
\* end it
RECURSIVE control_loop_break(_, _, _, _)
control_loop_break(acc, device_names, desired, t) ==
  IF device_names = <<>> \/ Head(device_names) \notin Devices THEN acc
  ELSE control_loop_break(control_step(acc, Head(device_names), desired, t),
                          Tail(device_names), desired, t)

RECURSIVE control_loop(_, _, _, _)
control_loop(acc, device_names, desired, t) ==
  IF device_names = <<>> THEN acc
  ELSE control_loop(control_step(acc, Head(device_names), desired, t),
                    Tail(device_names), desired, t)

\* the for loop of _control_devices run on the world w
control_changes(w, device_names, desired, t) ==
  control_loop([state |-> w.state, last_changed |-> w.last_changed,
                total_power_change |-> 0, responses |-> <<>>],
               device_names, desired, t)

\* the end of _control_devices without the addition to power_usage
control_commit_state_only(w, acc) ==
  [state |-> acc.state, last_changed |-> acc.last_changed, power_usage |-> w.power_usage]

\* "if responses: self.context['power_usage'] += total_power_change"
control_commit(w, acc) ==
  [state |-> acc.state, last_changed |-> acc.last_changed,
   power_usage |-> IF acc.responses # <<>>
                   THEN w.power_usage + acc.total_power_change
                   ELSE w.power_usage]

\* _control_devices(device_names, state): the world it leaves
control_devices(w, device_names, desired, t) ==
  control_commit(w, control_changes(w, device_names, desired, t))

\* the names as the registry spells them, underscores kept
display_names_raw(device_names) ==
  [i \in 1..Len(device_names) |-> Chars[device_names[i]]]

\* f"{device_name.replace('_', ' ')}" for every name in the list
display_names(device_names) ==
  [i \in 1..Len(device_names) |-> Replace(Chars[device_names[i]], "_", " ")]

\* the text _control_devices builds from the loop's result and the power
\* usage after the commit
control_text(acc, desired, usage) ==
  IF acc.responses # <<>>
  THEN STR.Turned \o (IF desired THEN STR.on ELSE STR.off) \o <<":", " ">>
         \o Join(display_names(acc.responses), <<",", " ">>)
         \o (IF acc.total_power_change > 100 \/ acc.total_power_change < 0 - 100
             THEN STR.PowerChange \o FormatSigned0f(acc.total_power_change) \o <<"W", ")">>
             ELSE <<>>)
         \o (IF usage > power_limit
             THEN STR.Warning \o Format0f(usage) \o STR.ExceedsLimit
             ELSE <<>>)
  ELSE STR.NoDevicesChanged

\* _control_devices(device_names, state): the text it returns
control_devices_response(w, device_names, desired, t) ==
  LET acc == control_changes(w, device_names, desired, t)
  IN control_text(acc, desired, control_commit(w, acc).power_usage)

\* the toggle pass that switches the device on whatever its state
toggle_step_on(acc, device_name, t) ==
  IF device_name \in Devices
  THEN [w |-> control_devices(acc.w, <<device_name>>, TRUE, t),
        responses |-> Append(acc.responses, <<device_name, TRUE>>)]
  ELSE acc

\* _toggle_devices: one pass of its for loop; responses collects the
\* name and the new state the code formats
toggle_step(acc, device_name, t) ==
  IF device_name \in Devices
  THEN LET new_state == ~acc.w.state[device_name]
       IN [w |-> control_devices(acc.w, <<device_name>>, new_state, t),
           responses |-> Append(acc.responses, <<device_name, new_state>>)]
  ELSE acc

RECURSIVE toggle_loop(_, _, _)
toggle_loop(acc, device_names, t) ==
  IF device_names = <<>> THEN acc
  ELSE toggle_loop(toggle_step(acc, Head(device_names), t), Tail(device_names), t)

\* _toggle_devices(device_names): the world it leaves
toggle_devices(w, device_names, t) ==
  IF device_names = <<>> THEN w
  ELSE toggle_loop([w |-> w, responses |-> <<>>], device_names, t).w

\* _toggle_devices(device_names): the text it returns
toggle_devices_response(w, device_names, t) ==
  IF device_names = <<>> THEN STR.WhichDevice
  ELSE LET responses == toggle_loop([w |-> w, responses |-> <<>>], device_names, t).responses
       IN IF responses # <<>>
          THEN Join([i \in 1..Len(responses) |->
                       Replace(Chars[responses[i][1]], "_", " ") \o STR.is_now
                         \o (IF responses[i][2] THEN STR.ON ELSE STR.OFF)],
                    <<".", " ">>)
          ELSE STR.CouldNotFind

(* ------------------------------ scenes --------------------------------- *)
\* the scene pass that only switches on: an item whose value is False is
\* skipped
scene_step_on_only(w, item, t) ==
  IF ~item[2] THEN w
  ELSE IF item[1] = "all_lights"
  THEN control_devices(w, devices_by_type("light"), TRUE, t)
  ELSE IF item[1] \in Devices
       THEN control_devices(w, <<item[1]>>, TRUE, t)
       ELSE w

\* the scene pass without the branch for 'all_lights': the token is a name
\* the registry lacks
scene_step_names_only(w, item, t) ==
  IF item[1] \in Devices
  THEN control_devices(w, <<item[1]>>, item[2], t)
  ELSE w

\* _activate_scene: one pass of the loop over scene['devices'].items()
scene_step(w, item, t) ==
  IF item[1] = "all_lights"
  THEN control_devices(w, devices_by_type("light"), item[2], t)
  ELSE IF item[1] \in Devices
       THEN control_devices(w, <<item[1]>>, item[2], t)
       ELSE w

RECURSIVE scene_loop(_, _, _)
scene_loop(w, items, t) ==
  IF items = <<>> THEN w
  ELSE scene_loop(scene_step(w, Head(items), t), Tail(items), t)

\* ', '.join(self.scenes.keys())
scene_keys_text == Join([i \in 1..Len(SceneOrder) |-> Chars[SceneOrder[i]]], <<",", " ">>)

\* _activate_scene that applies the first scene when the name is unknown
activate_scene_default(w, scene_name, t) ==
  scene_loop(w, scenes[IF scene_name \in SceneNames THEN scene_name ELSE SceneOrder[1]].devices, t)

\* _activate_scene(scene_name): the world it leaves
activate_scene(w, scene_name, t) ==
  IF scene_name \notin SceneNames THEN w
  ELSE scene_loop(w, scenes[scene_name].devices, t)

\* _activate_scene(scene_name): the keys the two indexes hold after it
activate_scene_lookups(index, scene_name) ==
  IF scene_name \in SceneNames
       /\ \E i \in 1..Len(scenes[scene_name].devices) : scenes[scene_name].devices[i][1] = "all_lights"
  THEN [index EXCEPT !.by_type = defaultdict_lookup(@, "light")]
  ELSE index

\* _activate_scene(scene_name): the text it returns
activate_scene_response(scene_name) ==
  IF scene_name \notin SceneNames
  THEN STR.UnknownScene \o scene_keys_text
  ELSE STR.Scene \o Chars[scene_name] \o STR.activated \o scenes[scene_name].description

(* ----------------------- temperature regulation ------------------------ *)
\* _temperature_regulation that flips the cooling devices instead of
\* turning them on
temperature_regulation_relative(w, direction, t) ==
  IF direction \in {"increase", "heat"}
  THEN LET w1 == control_devices(w, devices_by_type("heater"), TRUE, t)
           w2 == control_devices(w1, devices_by_type("fan"), FALSE, t)
       IN control_devices(w2, devices_by_type("ac"), FALSE, t)
  ELSE IF direction \in {"decrease", "cool"}
  THEN LET w1 == toggle_devices(w, devices_by_type("ac"), t)
           w2 == toggle_devices(w1, devices_by_type("fan"), t)
       IN control_devices(w2, devices_by_type("heater"), FALSE, t)
  ELSE w

\* _temperature_regulation(direction): the world it leaves
temperature_regulation(w, direction, t) ==
  IF direction \in {"increase", "heat"}
  THEN LET w1 == control_devices(w, devices_by_type("heater"), TRUE, t)
           w2 == control_devices(w1, devices_by_type("fan"), FALSE, t)
       IN control_devices(w2, devices_by_type("ac"), FALSE, t)
  ELSE IF direction \in {"decrease", "cool"}
  THEN LET w1 == control_devices(w, devices_by_type("ac"), TRUE, t)
           w2 == control_devices(w1, devices_by_type("fan"), TRUE, t)
       IN control_devices(w2, devices_by_type("heater"), FALSE, t)
  ELSE w

\* _temperature_regulation(direction): the text it returns; temp is
\* context['temperature']
temperature_regulation_response(direction, temp) ==
  IF direction \in {"increase", "heat"}
  THEN STR.Heating \o Format0f(temp) \o STR.DegF
  ELSE IF direction \in {"decrease", "cool"}
  THEN STR.Cooling \o Format0f(temp) \o STR.DegF
  ELSE STR.PleaseSpecify

(* --------------------------- fallback matcher -------------------------- *)
\* str.lower() on one character
LowerChar(ch) ==
  CASE ch = "A" -> "a"
       [] ch = "B" -> "b"
       [] ch = "C" -> "c"
       [] ch = "D" -> "d"
       [] ch = "E" -> "e"
       [] ch = "F" -> "f"
       [] ch = "G" -> "g"
       [] ch = "H" -> "h"
       [] ch = "I" -> "i"
       [] ch = "J" -> "j"
       [] ch = "K" -> "k"
       [] ch = "L" -> "l"
       [] ch = "M" -> "m"
       [] ch = "N" -> "n"
       [] ch = "O" -> "o"
       [] ch = "P" -> "p"
       [] ch = "Q" -> "q"
       [] ch = "R" -> "r"
       [] ch = "S" -> "s"
       [] ch = "T" -> "t"
       [] ch = "U" -> "u"
       [] ch = "V" -> "v"
       [] ch = "W" -> "w"
       [] ch = "X" -> "x"
       [] ch = "Y" -> "y"
       [] ch = "Z" -> "z"
       [] OTHER -> ch

\* str.lower()
Lower(s) == [i \in 1..Len(s) |-> LowerChar(s[i])]

Whitespace == {" ", "\t", "\n", "\r"}

\* str.strip()
RECURSIVE Strip(_)
Strip(s) ==
  IF s = <<>> THEN s
  ELSE IF s[1] \in Whitespace THEN Strip(Tail(s))
  ELSE IF s[Len(s)] \in Whitespace THEN Strip(SubSeq(s, 1, Len(s) - 1))
  ELSE s

\* any(kw in text for kw in keywords)
AnyIn(keywords, text) == \E i \in 1..Len(keywords) : Contains(text, keywords[i])

\* the patterns dictionary of _fast_pattern_match, in insertion order
patterns ==
  <<[intent |-> "turn_on",
     keywords |-> <<<<"t","u","r","n"," ","o","n">>,
                  <<"s","w","i","t","c","h"," ","o","n">>,
                  <<"e","n","a","b","l","e">>,
                  <<"a","c","t","i","v","a","t","e">>>>],
    [intent |-> "turn_off",
     keywords |-> <<<<"t","u","r","n"," ","o","f","f">>,
                  <<"s","w","i","t","c","h"," ","o","f","f">>,
                  <<"d","i","s","a","b","l","e">>,
                  <<"d","e","a","c","t","i","v","a","t","e">>,
                  <<"k","i","l","l">>>>],
    [intent |-> "toggle",
     keywords |-> <<<<"t","o","g","g","l","e">>,
                  <<"f","l","i","p">>>>]>>

\* a room_keywords table whose kitchen entry names a room no device is in
room_keywords_dining ==
  <<[keyword |-> <<"l","i","v","i","n","g"," ","r","o","o","m">>, room |-> "living_room"],
    [keyword |-> <<"b","e","d","r","o","o","m">>, room |-> "bedroom"],
    [keyword |-> <<"k","i","t","c","h","e","n">>, room |-> "dining_room"],
    [keyword |-> <<"g","a","r","d","e","n">>, room |-> "outdoor"],
    [keyword |-> <<"o","u","t","s","i","d","e">>, room |-> "outdoor"]>>

\* the room_keywords dictionary, in insertion order
room_keywords ==
  <<[keyword |-> <<"l","i","v","i","n","g"," ","r","o","o","m">>, room |-> "living_room"],
    [keyword |-> <<"b","e","d","r","o","o","m">>, room |-> "bedroom"],
    [keyword |-> <<"k","i","t","c","h","e","n">>, room |-> "kitchen"],
    [keyword |-> <<"g","a","r","d","e","n">>, room |-> "outdoor"],
    [keyword |-> <<"o","u","t","s","i","d","e">>, room |-> "outdoor"]>>

\* the keyword lists the matcher and the device extractor test a text for
KW ==
  [all |-> <<<<"a","l","l">>,
             <<"e","v","e","r","y","t","h","i","n","g">>,
             <<"e","n","t","i","r","e">>>>,
   light |-> <<"l","i","g","h","t">>,
   hot |-> <<<<"h","o","t">>,
             <<"w","a","r","m">>,
             <<"s","w","e","a","t","i","n","g">>>>,
   cold |-> <<<<"c","o","l","d">>,
              <<"f","r","e","e","z","i","n","g">>,
              <<"c","h","i","l","l","y">>>>,
   status |-> <<<<"s","t","a","t","u","s">>,
                <<"w","h","a","t","'","s"," ","o","n">>,
                <<"c","h","e","c","k">>,
                <<"s","h","o","w">>>>]

\* [name.replace('_', ' ')] + device.aliases
device_keywords(d) == <<Replace(Chars[d], "_", " ")>> \o aliases[d]

\* _extract_devices_from_text that leaves out the devices that are on
extract_devices_from_text_off_only(text) ==
  IF AnyIn(KW.all, text)
  THEN IF Contains(text, KW.light) THEN devices_by_type("light") ELSE DeviceOrder
  ELSE SelectSeq(DeviceOrder, LAMBDA d : ~state[d] /\ AnyIn(device_keywords(d), text))

\* _extract_devices_from_text(text)
extract_devices_from_text(text) ==
  IF AnyIn(KW.all, text)
  THEN IF Contains(text, KW.light) THEN devices_by_type("light") ELSE DeviceOrder
  ELSE SelectSeq(DeviceOrder, LAMBDA d : AnyIn(device_keywords(d), text))

\* an intent dictionary: keys is the set of its keys, a key it lacks has
\* the value of NoIntent here, and confidence counts hundredths
NoIntent ==
  [keys |-> {}, intent |-> "", devices |-> <<>>, scene |-> "", value |-> "",
   confidence |-> 0, reasoning |-> <<>>, raw_input |-> <<>>, from_cache |-> FALSE]

\* "confidence = 1.0 if not is_fallback else 0.5" without its test
base_confidence_full(is_fallback) == 100

\* "confidence = 1.0 if not is_fallback else 0.5", in hundredths
base_confidence(is_fallback) == IF is_fallback THEN 50 ELSE 100

\* the scene loop, were it to come after the keyword loop
matching_scenes_after_keywords(text) ==
  IF \E i \in 1..Len(patterns) : AnyIn(patterns[i].keywords, text) THEN <<>>
  ELSE SelectSeq(SceneOrder, LAMBDA s : Contains(text, Replace(Chars[s], "_", " ")))

\* the scenes whose name, with spaces, is in the text, in table order
matching_scenes(text) ==
  SelectSeq(SceneOrder, LAMBDA s : Contains(text, Replace(Chars[s], "_", " ")))

\* the entries of the keyword table that have a keyword in the text
matching_patterns(text) ==
  SelectSeq(patterns, LAMBDA p : AnyIn(p.keywords, text))

\* the devices the room step picks for a room
room_devices(text, r) ==
  IF Contains(text, KW.light)
  THEN SelectSeq(devices_by_room(r), LAMBDA d : device_type[d] = "light")
  ELSE devices_by_room(r)

\* the entries of the room table whose keyword is in the text and whose
\* room has devices to act on
matching_rooms(text) ==
  SelectSeq(room_keywords,
            LAMBDA k : Contains(text, k.keyword) /\ room_devices(text, k.room) # <<>>)

\* _fast_pattern_match(user_input, is_fallback)
fast_pattern_match(user_input, is_fallback) ==
  LET text == Lower(user_input)
      confidence == base_confidence(is_fallback)
  IN IF matching_scenes(text) # <<>>
     THEN [NoIntent EXCEPT !.keys = {"intent", "scene", "confidence", "reasoning"},
                           !.intent = "activate_scene",
                           !.scene = matching_scenes(text)[1],
                           !.confidence = confidence,
                           !.reasoning = STR.Activating \o Chars[matching_scenes(text)[1]]
                                           \o STR.scene]
     ELSE IF matching_patterns(text) # <<>> /\ extract_devices_from_text(text) # <<>>
     THEN [NoIntent EXCEPT !.keys = {"intent", "devices", "confidence", "reasoning"},
                           !.intent = matching_patterns(text)[1].intent,
                           !.devices = extract_devices_from_text(text),
                           !.confidence = confidence,
                           !.reasoning = STR.PatternMatchFor
                                           \o Chars[matching_patterns(text)[1].intent]]
     ELSE IF matching_rooms(text) # <<>>
     THEN [NoIntent EXCEPT !.keys = {"intent", "devices", "confidence", "reasoning"},
                           !.intent = IF AnyIn(patterns[1].keywords, text)
                                      THEN "turn_on" ELSE "turn_off",
                           !.devices = room_devices(text, matching_rooms(text)[1].room),
                           !.confidence = confidence - 2,
                           !.reasoning = STR.RoomBased \o Chars[matching_rooms(text)[1].room]]
     ELSE IF AnyIn(KW.hot, text)
     THEN [NoIntent EXCEPT !.keys = {"intent", "value", "confidence", "reasoning"},
                           !.intent = "set_temperature", !.value = "decrease",
                           !.confidence = 80, !.reasoning = STR.UserFeelsHot]
     ELSE IF AnyIn(KW.cold, text)
     THEN [NoIntent EXCEPT !.keys = {"intent", "value", "confidence", "reasoning"},
                           !.intent = "set_temperature", !.value = "increase",
                           !.confidence = 80, !.reasoning = STR.UserFeelsCold]
     ELSE IF AnyIn(KW.status, text)
     THEN [NoIntent EXCEPT !.keys = {"intent", "confidence", "reasoning"},
                           !.intent = "check_status", !.confidence = 90,
                           !.reasoning = STR.StatusCheck]
     ELSE [NoIntent EXCEPT !.keys = {"intent", "confidence", "reasoning"},
                           !.intent = "unknown", !.confidence = 10,
                           !.reasoning = STR.NoPattern]

\* the rooms the room loop of _fast_pattern_match looks up in
\* devices_by_room: those of the keywords in the text, up to the first
\* that has devices to act on
scanned_rooms(text) ==
  LET hits == SelectSeq(room_keywords, LAMBDA k : Contains(text, k.keyword))
      stops == {i \in 1..Len(hits) : room_devices(text, hits[i].room) # <<>>}
      last == IF stops = {} THEN Len(hits) ELSE CHOOSE i \in stops : \A j \in stops : i <= j
  IN {hits[i].room : i \in 1..last}

\* _fast_pattern_match(user_input, is_fallback): the keys the two
\* indexes hold after the call
fast_pattern_match_lookups(index, user_input) ==
  LET text == Lower(user_input)
      after_patterns ==
        IF matching_patterns(text) # <<>> /\ AnyIn(KW.all, text) /\ Contains(text, KW.light)
        THEN [index EXCEPT !.by_type = defaultdict_lookup(@, "light")]
        ELSE index
  IN IF matching_scenes(text) # <<>> THEN index
     ELSE IF matching_patterns(text) # <<>> /\ extract_devices_from_text(text) # <<>>
     THEN after_patterns
     ELSE [after_patterns EXCEPT !.by_room = @ \cup scanned_rooms(text)]

(* -------------------------- response cache ----------------------------- *)
\* the size above which _cache_response evicts
CacheCapacity == 100

\* the number of entries _cache_response evicts
EvictCount == 20

\* "key in self.response_cache"; the cache is the list of the dictionary's
\* items in insertion order
cache_has(cache, key) == \E i \in 1..Len(cache) : cache[i].key = key

\* self.response_cache[key]
cache_get(cache, key) == cache[CHOOSE i \in 1..Len(cache) : cache[i].key = key].value

\* "self.response_cache[key] = value": a present key keeps its place
cache_set(cache, key, value) ==
  IF cache_has(cache, key)
  THEN [i \in 1..Len(cache) |-> IF cache[i].key = key
                                THEN [key |-> key, value |-> value] ELSE cache[i]]
  ELSE Append(cache, [key |-> key, value |-> value])

\* _cache_response that evicts and stores nothing
cache_response_unstored(cache, key, response) ==
  IF Len(cache) > CacheCapacity
  THEN SubSeq(cache, EvictCount + 1, Len(cache))
  ELSE cache

\* _cache_response that evicts the entries inserted last
cache_response_latest(cache, key, response) ==
  cache_set(IF Len(cache) > CacheCapacity
            THEN SubSeq(cache, 1, Len(cache) - EvictCount)
            ELSE cache,
            key, response)

\* _cache_response(key, response)
cache_response(cache, key, response) ==
  cache_set(IF Len(cache) > CacheCapacity
            THEN SubSeq(cache, EvictCount + 1, Len(cache))
            ELSE cache,
            key, response)

(* ------------------------ command understanding ------------------------ *)
(* What the language model does on one call is an outcome:                *)
(*   error     ollama.generate raises; _get_ollama_response returns None  *)
(*   empty     the response text is empty                                 *)
(*   garbage   text that is no JSON and holds no JSON object              *)
(*   object    a JSON object: the payload                                 *)
(*   embedded  a JSON object, the payload, inside other text              *)
(*   scalar    JSON that is a number, a string or a list, not empty       *)
(*   falsy     JSON null, 0, "", [] or {}                                 *)

\* _get_ollama_response and _parse_llm_response: what the parse returns
parse_llm_response(outcome) ==
  CASE outcome.kind \in {"error", "empty", "garbage", "falsy"} -> [truthy |-> FALSE, dict |-> FALSE, value |-> NoIntent]
    [] outcome.kind \in {"object", "embedded"} -> [truthy |-> TRUE, dict |-> TRUE, value |-> outcome.payload]
    [] outcome.kind = "scalar" -> [truthy |-> TRUE, dict |-> FALSE, value |-> NoIntent]

\* "d[key] = value" on an intent dictionary
with_raw_input(action, user_input) ==
  [action EXCEPT !.keys = @ \cup {"raw_input"}, !.raw_input = user_input]

\* the branch of understand_command for a key the cache holds, were it to
\* mark the stored dictionary itself instead of a copy of it
cache_hit_uncopied(cache, cache_key) ==
  LET cached == [cache_get(cache, cache_key) EXCEPT !.keys = @ \cup {"from_cache"},
                                                    !.from_cache = TRUE]
  IN [action |-> cached, cache |-> cache_set(cache, cache_key, cached)]

\* the branch of understand_command for a key the cache holds: a copy of
\* the stored dictionary is marked and returned
cache_hit(cache, cache_key) ==
  [action |-> [cache_get(cache, cache_key) EXCEPT !.keys = @ \cup {"from_cache"},
                                                  !.from_cache = TRUE],
   cache |-> cache]

\* the last branch of understand_command, were it to store the matcher's
\* intent as the branch above it stores the model's
fallback_cached(cache, cache_key, user_input) ==
  LET fallback_action == with_raw_input(fast_pattern_match(user_input, TRUE), user_input)
  IN [action |-> fallback_action, cache |-> cache_response(cache, cache_key, fallback_action)]

\* the last branch of understand_command: the matcher's intent is
\* returned
fallback(cache, cache_key, user_input) ==
  [action |-> with_raw_input(fast_pattern_match(user_input, TRUE), user_input),
   cache |-> cache]

\* understand_command(user_input), given what the model does if it is
\* asked: the intent returned or the failure raised, whether the matcher
\* produced it, and the cache and counters left
understand_command(cache, stats, user_input, outcome) ==
  LET cache_key == Strip(Lower(user_input))
      parsed == parse_llm_response(outcome)
      missed == [stats EXCEPT !.cache_misses = @ + 1]
  IN IF cache_has(cache, cache_key)
     THEN cache_hit(cache, cache_key)
            @@ [raised |-> FALSE, fallback |-> FALSE,
                stats |-> [stats EXCEPT !.cache_hits = @ + 1]]
     ELSE IF parsed.truthy /\ ~parsed.dict
     THEN [raised |-> TRUE, fallback |-> FALSE, action |-> NoIntent,
           cache |-> cache, stats |-> missed]
     ELSE IF parsed.truthy
     THEN [raised |-> FALSE, fallback |-> FALSE,
           action |-> with_raw_input(parsed.value, user_input),
           cache |-> cache_response(cache, cache_key, with_raw_input(parsed.value, user_input)),
           stats |-> missed]
     ELSE fallback(cache, cache_key, user_input)
            @@ [raised |-> FALSE, fallback |-> TRUE, stats |-> missed]

(* ---------------------------- status report ---------------------------- *)
\* context['humidity']
humidity == 45

\* context['outdoor_temp']
outdoor_temp == 85

\* context['security_armed'], context['sleep_mode'], context['vacation_mode']:
\* set at start-up and written nowhere
security_armed == FALSE

sleep_mode == FALSE

vacation_mode == FALSE

\* str.upper() on one character
UpperChar(ch) ==
  CASE ch = "a" -> "A"
       [] ch = "b" -> "B"
       [] ch = "c" -> "C"
       [] ch = "d" -> "D"
       [] ch = "e" -> "E"
       [] ch = "f" -> "F"
       [] ch = "g" -> "G"
       [] ch = "h" -> "H"
       [] ch = "i" -> "I"
       [] ch = "j" -> "J"
       [] ch = "k" -> "K"
       [] ch = "l" -> "L"
       [] ch = "m" -> "M"
       [] ch = "n" -> "N"
       [] ch = "o" -> "O"
       [] ch = "p" -> "P"
       [] ch = "q" -> "Q"
       [] ch = "r" -> "R"
       [] ch = "s" -> "S"
       [] ch = "t" -> "T"
       [] ch = "u" -> "U"
       [] ch = "v" -> "V"
       [] ch = "w" -> "W"
       [] ch = "x" -> "X"
       [] ch = "y" -> "Y"
       [] ch = "z" -> "Z"
       [] OTHER -> ch

IsLetter(ch) == LowerChar(ch) # ch \/ UpperChar(ch) # ch

\* str.title()
Title(s) ==
  [i \in 1..Len(s) |-> IF i = 1 \/ ~IsLetter(s[IF i = 1 THEN 1 ELSE i - 1])
                       THEN UpperChar(s[i]) ELSE LowerChar(s[i])]

\* the keys of self.devices_by_room, in insertion order
RoomOrder ==
  LET first == {i \in 1..Len(DeviceOrder) :
                  \A j \in 1..(i - 1) : room[DeviceOrder[j]] # room[DeviceOrder[i]]}
      pick[i \in 0..Len(DeviceOrder)] ==
        IF i = 0 THEN <<>>
        ELSE IF i \in first THEN Append(pick[i - 1], room[DeviceOrder[i]]) ELSE pick[i - 1]
  IN pick[Len(DeviceOrder)]

\* the report line of one room
room_line(w, r) ==
  LET active == SelectSeq(devices_by_room(r), LAMBDA d : w.state[d])
  IN STR.Pin \o Title(Replace(Chars[r], "_", " ")) \o <<":", " ">>
       \o (IF active # <<>>
           THEN Join(display_names(active), <<",", " ">>) \o STR.SpaceON
           ELSE STR.AllDevicesOff)

\* _get_status_report(); temp is context['temperature']
get_status_report(w, temp) ==
  Join(<<STR.ReportHead,
         STR.PowerUsage \o Format0f(w.power_usage) \o STR.WSlash \o Format0f(power_limit) \o <<"W">>,
         STR.Temperature \o Format0f(temp) \o STR.DegF \o STR.Outside \o Format0f(outdoor_temp)
           \o STR.DegF \o <<")">>,
         STR.Humidity \o Format0f(humidity) \o <<"%", "\n">>>>
       \o [i \in 1..Len(RoomOrder) |-> room_line(w, RoomOrder[i])]
       \o (IF security_armed THEN <<STR.SecurityArmed>> ELSE <<>>)
       \o (IF sleep_mode \/ vacation_mode
           THEN <<STR.ActiveModes
                    \o Join((IF sleep_mode THEN <<STR.SleepMode>> ELSE <<>>)
                              \o (IF vacation_mode THEN <<STR.VacationMode>> ELSE <<>>),
                            <<",", " ">>)>>
           ELSE <<>>),
       <<"\n">>)

\* the nine kinds of intent
Intents ==
  {"turn_on", "turn_off", "toggle", "set_temperature", "activate_scene", "check_status", "schedule", "clarify", "unknown"}

\* the text of an intent kind
IntentText ==
  [k \in Intents |->
     CASE k = "turn_on" -> <<"t","u","r","n","_","o","n">>
       [] k = "turn_off" -> <<"t","u","r","n","_","o","f","f">>
       [] k = "toggle" -> <<"t","o","g","g","l","e">>
       [] k = "set_temperature" -> <<"s","e","t","_","t","e","m","p","e","r","a","t","u","r","e">>
       [] k = "activate_scene" -> <<"a","c","t","i","v","a","t","e","_","s","c","e","n","e">>
       [] k = "check_status" -> <<"c","h","e","c","k","_","s","t","a","t","u","s">>
       [] k = "schedule" -> <<"s","c","h","e","d","u","l","e">>
       [] k = "clarify" -> <<"c","l","a","r","i","f","y">>
       [] k = "unknown" -> <<"u","n","k","n","o","w","n">>]

(* -------------------------- command execution -------------------------- *)
\* the default text, whatever reasoning the intent carries
get_reasoning_default(action, default) == default

\* action.get('reasoning', default)
get_reasoning(action, default) ==
  IF "reasoning" \in action.keys THEN action.reasoning ELSE default

\* the intents execute_command has a working branch for; "schedule" calls
\* _schedule_operation, which the class does not define
Handled(action) == action.intent # "schedule"

\* execute_command(action): the world it leaves
execute_command(w, action, t) ==
  CASE action.intent = "activate_scene" -> activate_scene(w, action.scene, t)
    [] action.intent \in {"turn_on", "turn_off"} ->
         control_devices(w, action.devices, action.intent = "turn_on", t)
    [] action.intent = "toggle" -> toggle_devices(w, action.devices, t)
    [] action.intent = "set_temperature" -> temperature_regulation(w, action.value, t)
    [] OTHER -> w

\* execute_command(action): the keys the two indexes hold after it
execute_command_lookups(index, action) ==
  IF action.intent = "activate_scene" THEN activate_scene_lookups(index, action.scene) ELSE index

\* execute_command(action): the text it returns
execute_command_response(w, action, temp, t) ==
  CASE action.intent = "clarify" -> get_reasoning(action, STR.Clarify)
    [] action.intent = "activate_scene" -> activate_scene_response(action.scene)
    [] action.intent \in {"turn_on", "turn_off"} ->
         control_devices_response(w, action.devices, action.intent = "turn_on", t)
    [] action.intent = "toggle" -> toggle_devices_response(w, action.devices, t)
    [] action.intent = "set_temperature" -> temperature_regulation_response(action.value, temp)
    [] action.intent = "check_status" -> get_status_report(w, temp)
    [] OTHER -> get_reasoning(action, STR.Understood \o IntentText[action.intent] \o STR.DontKnow)

(* --------------------------- state, continued -------------------------- *)
\* the variables of the threads
threadVars == <<caller, updater, reader, overlap>>

\* the variables of the command pipeline
pipelineVars == <<response_cache, history, index_keys>>

\* the variables of the command queue and of the two loops beside the
\* context updater
loopVars == <<command_queue, processor, pump, drained>>

vars == <<state, last_changed, power_usage, temperature, performance_stats,
          gpio_simulation_mode, now, running, last_op, caller, updater, reader, overlap,
          response_cache, history, index_keys, command_queue, processor, pump, drained>>

\* the world the handlers work on
World == [state |-> state, last_changed |-> last_changed, power_usage |-> power_usage]

\* a handler commits the world it computed
Commit(w) ==
  /\ state' = w.state
  /\ last_changed' = w.last_changed
  /\ power_usage' = w.power_usage

(* ------------------------------- inputs -------------------------------- *)
\* a name that is in no registry
UnknownDevice == "garage_door"

Names == Devices \cup {UnknownDevice}

\* all lists of length at most n over the set S
SeqUpTo(S, n) == UNION {[1..k -> S] : k \in 0..n}

\* the names the round trips draw on, in registry order: devices of every
\* size of draw, the outlet that draws nothing, and the unregistered name
\* in their midst
NameOrder ==
  <<"living_room_light", "bedroom_ac", "bedroom_heater", UnknownDevice,
    "kitchen_light", "front_door_lock", "smart_outlet_1">>

\* every list of at most n names that follows the order of the list
\* order, repeats allowed
OrderedLists(order, n) ==
  {[i \in 1..Len(ix) |-> order[ix[i]]] :
     ix \in {s \in SeqUpTo(1..Len(order), n) :
               \A i \in 1..(Len(s) - 1) : s[i] <= s[i + 1]}}

\* the lists the round trips are tried on
NameLists == OrderedLists(NameOrder, MaxLen)

\* the names direct callers put in their lists: the first two devices of
\* the registry and one unregistered name
Pool == {DeviceOrder[1], DeviceOrder[2], UnknownDevice}

\* the lists direct callers hand to the controller: short lists over the
\* pool, and the two group lists _extract_devices_from_text produces
CallLists ==
  OrderedLists(<<DeviceOrder[1], UnknownDevice, DeviceOrder[2]>>, MaxLen)
    \cup {DeviceOrder, devices_by_type("light")}

\* scene names callers ask for: the registered ones, one that is in no
\* table, and the one the sunset_lights rule asks for
SceneInputs == SceneNames \cup {"party_mode", "evening_lights"}

Directions == {"increase", "heat", "decrease", "cool", "auto"}

(* ------------------------------ threads -------------------------------- *)
\* the request threads that call the controller
Callers == 1..NumCallers

\* a request thread outside _control_devices, after n calls; warning tells
\* whether the text its last call returned had the power-limit warning
IdleCaller(n) ==
  [pc |-> "idle", device_names |-> <<>>, desired |-> FALSE, i |-> 1,
   total_power_change |-> 0, responses |-> <<>>, usage |-> 0,
   calls |-> n, warning |-> FALSE]

\* the api_status thread outside the handler
IdleReader == [pc |-> "idle", seen_state |-> <<>>, seen_usage |-> 0, torn |-> FALSE]

\* the processor's local "command" before it has taken one
NoCommand == [producer |-> 0, seq |-> 0, text |-> <<>>, callback |-> FALSE]

(* ------------------------------ start-up ------------------------------- *)
\* the state __init__ leaves, but for the temperature: every device off,
\* no power drawn
Constructed ==
  /\ state = [d \in Devices |-> FALSE]
  /\ last_changed = [d \in Devices |-> 0]
  /\ power_usage = 0
  /\ performance_stats = [cache_hits |-> 0, cache_misses |-> 0,
                          total_commands |-> 0, automation_triggers |-> 0]
  /\ gpio_simulation_mode \in BOOLEAN
  /\ now = 0
  /\ running = TRUE
  /\ last_op = [op |-> "init", arg |-> ""]
  /\ caller = [c \in Callers |-> IdleCaller(0)]
  /\ updater = [pc |-> "sum", i |-> 1, total_power |-> 0]
  /\ reader = IdleReader
  /\ overlap = FALSE
  /\ response_cache = <<>>
  /\ history = <<>>
  /\ index_keys = [by_room |-> {room[d] : d \in Devices},
                   by_type |-> {device_type[d] : d \in Devices}]
  /\ command_queue = <<>>
  /\ processor = [pc |-> "poll", command |-> NoCommand, failed |-> FALSE]
  /\ pump = [pc |-> "run"]
  /\ drained = <<>>

\* the state __init__ leaves
Init == Constructed /\ temperature = 72

(* ------------------- handlers, each run to completion ------------------ *)
\* a caller runs _control_devices(device_names, desired)
SetDevices(device_names, desired) ==
  /\ running
  /\ Commit(control_devices(World, device_names, desired, now))
  /\ last_op' = [op |-> "control_devices", arg |-> IF desired THEN "on" ELSE "off"]
  /\ UNCHANGED <<temperature, performance_stats, gpio_simulation_mode, now, running, threadVars, loopVars, pipelineVars>>

\* a caller runs _toggle_devices(device_names)
ToggleDevices(device_names) ==
  /\ running
  /\ Commit(toggle_devices(World, device_names, now))
  /\ last_op' = [op |-> "toggle_devices", arg |-> ""]
  /\ UNCHANGED <<temperature, performance_stats, gpio_simulation_mode, now, running, threadVars, loopVars, pipelineVars>>

\* a caller runs _activate_scene(scene_name)
ActivateScene(scene_name) ==
  /\ running
  /\ Commit(activate_scene(World, scene_name, now))
  /\ index_keys' = activate_scene_lookups(index_keys, scene_name)
  /\ last_op' = [op |-> "activate_scene", arg |-> scene_name]
  /\ UNCHANGED <<temperature, performance_stats, gpio_simulation_mode, now, running, threadVars, loopVars,
                 response_cache, history>>

\* a caller runs _temperature_regulation(direction)
TemperatureRegulation(direction) ==
  /\ running
  /\ Commit(temperature_regulation(World, direction, now))
  /\ last_op' = [op |-> "temperature_regulation", arg |-> direction]
  /\ UNCHANGED <<temperature, performance_stats, gpio_simulation_mode, now, running, threadVars, loopVars, pipelineVars>>


(* --------------------------- automation rules -------------------------- *)
\* thresholds['temp_comfort_max']
temp_comfort_max == 76

\* self.automation_rules, in list order
automation_rules ==
  <<[name |-> "sunset_lights", trigger |-> "time", enabled |-> TRUE],
    [name |-> "temperature_control", trigger |-> "condition", enabled |-> TRUE],
    [name |-> "motion_lights", trigger |-> "motion", enabled |-> TRUE]>>

\* rule['condition']() of the condition-triggered rule
rule_condition(rule, temp) ==
  rule.name = "temperature_control" /\ temp > temp_comfort_max

\* a rule loop pass that leaves out the test of rule['enabled']
rule_step_unguarded(acc, rule, temp, t) ==
  IF rule.trigger = "condition" /\ rule_condition(rule, temp)
  THEN [w |-> temperature_regulation(acc.w, "cool", t),
        triggers |-> acc.triggers + 1]
  ELSE acc

\* one pass of the rule loop of _context_updater; acc is [w, triggers]
rule_step(acc, rule, temp, t) ==
  IF ~rule.enabled THEN acc
  ELSE IF rule.trigger = "condition" /\ rule_condition(rule, temp)
       THEN [w |-> temperature_regulation(acc.w, "cool", t),
             triggers |-> acc.triggers + 1]
       ELSE acc

RECURSIVE rule_loop(_, _, _, _)
rule_loop(acc, rules, temp, t) ==
  IF rules = <<>> THEN acc
  ELSE rule_loop(rule_step(acc, Head(rules), temp, t), Tail(rules), temp, t)

\* the power recomputation of _context_updater
refresh_power(w) == [w EXCEPT !.power_usage = total_power(w.state)]

\* one iteration of the loop of _context_updater, run without interruption
ContextRefresh ==
  /\ running
  /\ LET acc == rule_loop([w |-> refresh_power(World),
                           triggers |-> performance_stats.automation_triggers],
                          automation_rules, temperature, now)
     IN /\ Commit(acc.w)
        /\ performance_stats' = [performance_stats EXCEPT !.automation_triggers = acc.triggers]
  /\ last_op' = [op |-> "context_updater", arg |-> ""]
  /\ UNCHANGED <<temperature, gpio_simulation_mode, now, running, threadVars, loopVars, pipelineVars>>

\* the device loop of cleanup()
cleanup_devices(w, simulation) ==
  IF simulation THEN w
  ELSE [w EXCEPT !.state = [d \in Devices |-> FALSE]]

\* main() leaves its loop and runs cleanup()
Cleanup ==
  /\ running
  /\ Commit(cleanup_devices(World, gpio_simulation_mode))
  /\ running' = FALSE
  /\ last_op' = [op |-> "cleanup", arg |-> ""]
  /\ UNCHANGED <<temperature, performance_stats, gpio_simulation_mode, now, threadVars, loopVars, pipelineVars>>

Next ==
  \/ \E device_names \in CallLists, desired \in BOOLEAN : SetDevices(device_names, desired)
  \/ \E device_names \in CallLists : ToggleDevices(device_names)
  \/ \E scene_name \in SceneInputs : ActivateScene(scene_name)
  \/ \E direction \in Directions : TemperatureRegulation(direction)
  \/ ContextRefresh
  \/ Cleanup

Spec == Init /\ [][Next]_vars


(* ------------------------- the command pipeline ------------------------ *)
\* the command texts users send
Texts ==
  {<<"t","u","r","n"," ","o","n"," ","t","h","e"," ","k","i","t","c","h","e","n"," ","l","i","g","h","t">>,
   <<" "," ","T","u","r","n"," ","O","N"," ","t","h","e"," ","K","i","t","c","h","e","n"," ","L","i","g","h","t"," ">>,
   <<"t","u","r","n"," ","o","n"," ","t","h","e"," ","b","e","d","r","o","o","m"," ","a","c">>,
   <<"t","u","r","n"," ","o","n"," ","t","h","e"," ","k","i","t","c","h","e","n"," ","l","i","g","h","t"," ","f","o","r"," ","d","i","n","n","e","r">>,
   <<"t","u","r","n"," ","o","n"," ","t","h","e"," ","k","i","t","c","h","e","n"," ","l","i","g","h","t"," ","i","n"," ","t","h","e"," ","h","a","l","l">>,
   <<"k","i","t","c","h","e","n"," ","o","f","f">>}

\* the intent objects the language model answers with; the two batches
\* hold a name the registry lacks
NluIntents ==
  [turn_on |-> [NoIntent EXCEPT !.keys = {"intent", "devices", "scene", "value", "reasoning"},
                                !.intent = "turn_on",
                                !.devices = <<UnknownDevice, "kitchen_light">>,
                                !.reasoning = STR.ReasonTurnOn],
   turn_off |-> [NoIntent EXCEPT !.keys = {"intent", "devices", "scene", "value", "reasoning"},
                                 !.intent = "turn_off",
                                 !.devices = <<"bedroom_ac", UnknownDevice, "kitchen_light">>,
                                 !.reasoning = STR.ReasonTurnOff],
   schedule |-> [NoIntent EXCEPT !.keys = {"intent", "devices", "scene", "value", "reasoning"},
                                 !.intent = "schedule", !.reasoning = STR.ReasonSchedule],
   clarify |-> [NoIntent EXCEPT !.keys = {"intent", "devices", "scene", "value", "reasoning"},
                                !.intent = "clarify", !.reasoning = STR.ReasonClarify],
   unknown |-> [NoIntent EXCEPT !.keys = {"intent", "reasoning"},
                                !.intent = "unknown", !.reasoning = STR.ReasonUnknown]]

\* what the language model may do on a call
NluOutcomes ==
  {[kind |-> k, payload |-> NoIntent] : k \in {"error", "empty", "garbage", "scalar", "falsy"}}
    \cup {[kind |-> "object", payload |-> NluIntents[k]] :
            k \in {"turn_off", "schedule", "clarify", "unknown"}}
    \cup {[kind |-> "embedded", payload |-> NluIntents.turn_on]}

\* api_command, the interactive loop and the command processor: a command
\* is understood and, unless understanding raised, executed; a failure
\* ends the handling of the command.  The clock has moved on since the
\* command before.
Command(user_input, outcome) ==
  /\ running
  /\ Len(history) < MaxCommands
  /\ \E u \in {understand_command(response_cache, performance_stats, user_input, outcome)} :
       LET executed == ~u.raised /\ Handled(u.action)
       IN /\ response_cache' = u.cache
          /\ performance_stats' =
               IF u.raised THEN u.stats
               ELSE [u.stats EXCEPT !.total_commands = @ + 1]
          /\ Commit(IF executed THEN execute_command(World, u.action, now + 1) ELSE World)
          /\ index_keys' = execute_command_lookups(
                              IF u.fallback
                              THEN fast_pattern_match_lookups(index_keys, user_input)
                              ELSE index_keys,
                              IF executed THEN u.action ELSE NoIntent)
          /\ history' = Append(history,
                               [user_input |-> user_input,
                                outcome |-> outcome.kind,
                                missed |-> ~cache_has(response_cache, Strip(Lower(user_input))),
                                raised |-> u.raised,
                                executed |-> executed,
                                fallback |-> u.fallback,
                                action |-> u.action,
                                on_before |-> {d \in Devices : state[d]},
                                usage_before |-> power_usage,
                                response |-> IF executed
                                             THEN execute_command_response(World, u.action,
                                                                           temperature, now + 1)
                                             ELSE <<>>])
  /\ now' = now + 1
  /\ last_op' = [op |-> "command", arg |-> ""]
  /\ UNCHANGED <<temperature, gpio_simulation_mode, running, threadVars, loopVars>>

NextCommands == \E user_input \in Texts, outcome \in NluOutcomes : Command(user_input, outcome)

\* the pipeline reads nothing of the GPIO mode: one mode stands for both
InitCommands == Init /\ gpio_simulation_mode

\* commands handled one after the other
SpecCommands == InitCommands /\ [][NextCommands]_vars

(* ------------------------ the rule loop, cycle by cycle ---------------- *)
\* context['temperature'] as a sensor reports it: the code reads it, and
\* writes it only in _init_context
Readings == {72, 80}

\* the rule table as _init_automation_rules writes it, and with the
\* enabled flag of rules cleared
RuleTables ==
  [as_written |-> automation_rules,
   temperature_control_off |->
     [i \in 1..Len(automation_rules) |->
        [automation_rules[i] EXCEPT !.enabled = (automation_rules[i].name # "temperature_control")]],
   all_off |->
     [i \in 1..Len(automation_rules) |-> [automation_rules[i] EXCEPT !.enabled = FALSE]]]

\* one iteration of the loop of _context_updater over a rule table, at a
\* later time than the step before
RuleCycle(table) ==
  /\ running
  /\ now < MaxCycles
  /\ LET acc == rule_loop([w |-> refresh_power(World),
                           triggers |-> performance_stats.automation_triggers],
                          RuleTables[table], temperature, now + 1)
     IN /\ Commit(acc.w)
        /\ performance_stats' = [performance_stats EXCEPT !.automation_triggers = acc.triggers]
  /\ now' = now + 1
  /\ last_op' = [op |-> "context_updater", arg |-> table]
  /\ UNCHANGED <<temperature, gpio_simulation_mode, running, threadVars, loopVars, pipelineVars>>

NextRules ==
  \/ \E table \in DOMAIN RuleTables : RuleCycle(table)
  \/ \E direction \in Directions : TemperatureRegulation(direction)
  \/ \E device_names \in {devices_by_type("light")} : ToggleDevices(device_names)

\* the state __init__ leaves, with a temperature reading
InitRules == Constructed /\ gpio_simulation_mode /\ temperature \in Readings

\* iterations of the context updater between temperature requests
SpecRules == InitRules /\ [][NextRules]_vars

(* --------------------------- the matcher alone ------------------------- *)
\* texts that meet the conditions of one or several steps of the matcher
MatcherTexts ==
  {<<"T","u","r","n"," ","o","n"," ","t","h","e"," ","k","i","t","c","h","e","n"," ","l","i","g","h","t"," ","f","o","r"," ","M","o","v","i","e"," ","N","i","g","h","t">>,
   <<"t","u","r","n"," ","o","f","f"," ","t","h","e"," ","b","e","d","r","o","o","m"," ","h","e","a","t","e","r",","," ","i","t"," ","i","s"," ","h","o","t">>,
   <<"t","h","e"," ","k","i","t","c","h","e","n"," ","i","s"," ","h","o","t">>,
   <<"i","t"," ","i","s"," ","h","o","t",","," ","s","h","o","w"," ","t","h","e"," ","s","t","a","t","u","s">>,
   <<"i"," ","a","m"," ","c","o","l","d">>,
   <<"s","h","o","w"," ","s","t","a","t","u","s">>,
   <<"h","e","l","l","o"," ","t","h","e","r","e">>,
   <<"t","u","r","n"," ","o","n"," ","s","o","m","e","t","h","i","n","g">>}

\* _fast_pattern_match(user_input, is_fallback) is called and what it
\* returns is recorded
Match(user_input, is_fallback) ==
  /\ running
  /\ Len(history) < MaxCommands
  /\ history' = Append(history, [user_input |-> user_input, is_fallback |-> is_fallback,
                                 action |-> fast_pattern_match(user_input, is_fallback)])
  /\ index_keys' = fast_pattern_match_lookups(index_keys, user_input)
  /\ last_op' = [op |-> "fast_pattern_match", arg |-> ""]
  /\ UNCHANGED <<state, last_changed, power_usage, temperature, performance_stats,
                 gpio_simulation_mode, now, running, threadVars, loopVars, response_cache>>

NextMatcher == \E user_input \in MatcherTexts, is_fallback \in BOOLEAN : Match(user_input, is_fallback)

\* calls of the matcher with either value of its flag
SpecMatcher == InitCommands /\ [][NextMatcher]_vars

(* ------------------------- a long run of commands ---------------------- *)
\* the n-th of the command texts that differ from one another
KeyText(n) == <<"P","r","e","s","e","t"," ">> \o Digits(n)

\* a command as Command handles it, without the record of it in history,
\* so that more than MaxCommands of them can follow one another
LongRunCommand(user_input, outcome) ==
  /\ running
  /\ \E u \in {understand_command(response_cache, performance_stats, user_input, outcome)} :
       /\ ~u.raised
       /\ Handled(u.action)
       /\ response_cache' = u.cache
       /\ performance_stats' = [u.stats EXCEPT !.total_commands = @ + 1]
       /\ Commit(execute_command(World, u.action, now + 1))
       /\ index_keys' = execute_command_lookups(
                           IF u.fallback
                           THEN fast_pattern_match_lookups(index_keys, user_input)
                           ELSE index_keys,
                           u.action)
       /\ last_op' = [op |-> "command",
                      arg |-> IF "from_cache" \in u.action.keys THEN "hit" ELSE "miss"]
  /\ now' = now + 1
  /\ UNCHANGED <<temperature, gpio_simulation_mode, running, threadVars, loopVars, history>>

\* a command with a text no command had before, which the language model
\* answers with an intent object
NewCommand ==
  /\ performance_stats.cache_misses < MaxStores
  /\ LongRunCommand(KeyText(performance_stats.cache_misses + 1),
                    [kind |-> "object", payload |-> NluIntents.clarify])

\* a command that repeats the text of the entry the cache has held
\* longest; the language model is not asked
RepeatedCommand ==
  /\ performance_stats.cache_hits < MaxHits
  /\ response_cache # <<>>
  /\ LongRunCommand(response_cache[1].value.raw_input, [kind |-> "error", payload |-> NoIntent])

NextCache == NewCommand \/ RepeatedCommand

\* a long run of commands, most with a text of their own
SpecCache == InitCommands /\ [][NextCache]_vars

(* --------------------- threads, statement by statement ----------------- *)
(* No lock guards the registry or the context, so the threads interleave  *)
(* between any two statements.  A request thread's steps are the reads    *)
(* and writes of _control_devices; the updater's are those of one         *)
(* iteration of _context_updater; the reader's are those of api_status.   *)

\* the steps threads take leave these alone
seqFrame == <<temperature, gpio_simulation_mode, now, running, last_op, pipelineVars, loopVars>>

\* the registered devices a call names
Targets(device_names) == Range(device_names) \cap Devices

InCall(c) == caller[c].pc # "idle"

\* a request thread enters _control_devices(device_names, desired)
CallStart(c, device_names, desired) ==
  /\ caller[c].pc = "idle"
  /\ caller[c].calls < MaxCalls
  /\ caller' = [caller EXCEPT ![c] =
                  [IdleCaller(caller[c].calls) EXCEPT
                     !.pc = "test", !.device_names = device_names, !.desired = desired]]
  /\ overlap' = (overlap \/ \E o \in Callers \ {c} :
                   InCall(o) /\ Targets(caller[o].device_names) \cap Targets(device_names) # {})
  /\ UNCHANGED <<state, last_changed, power_usage, performance_stats, updater, reader, seqFrame>>

\* the head of the for loop: "device_name not in self.devices", the test
\* "device.state != state", and "if responses:" when the list is used up
CallTest(c) ==
  /\ caller[c].pc = "test"
  /\ LET me == caller[c]
     IN IF me.i > Len(me.device_names)
        THEN caller' = [caller EXCEPT ![c] =
                          IF me.responses # <<>>
                          THEN [me EXCEPT !.pc = "read_usage"]
                          ELSE IdleCaller(me.calls + 1)]
        ELSE LET device_name == me.device_names[me.i]
             IN caller' = [caller EXCEPT ![c] =
                             IF device_name \in Devices /\ state[device_name] # me.desired
                             THEN [me EXCEPT !.pc = "flip"]
                             ELSE [me EXCEPT !.i = me.i + 1]]
  /\ UNCHANGED <<state, last_changed, power_usage, performance_stats, updater, reader,
                 overlap, seqFrame>>

\* the body of the if: the actuator call, the power delta,
\* "device.state = state", the timestamp and the response
CallFlip(c) ==
  /\ caller[c].pc = "flip"
  /\ LET me == caller[c]
         device_name == me.device_names[me.i]
     IN /\ state' = [state EXCEPT ![device_name] = me.desired]
        /\ last_changed' = [last_changed EXCEPT ![device_name] = now]
        /\ caller' = [caller EXCEPT ![c] =
                        [me EXCEPT !.pc = "test", !.i = me.i + 1,
                                   !.total_power_change =
                                       me.total_power_change
                                         + (IF me.desired
                                            THEN power_consumption[device_name]
                                            ELSE 0 - power_consumption[device_name]),
                                   !.responses = Append(me.responses, device_name)]]
  /\ UNCHANGED <<power_usage, performance_stats, updater, reader, overlap, seqFrame>>

\* the read half of "self.context['power_usage'] += total_power_change"
CallReadUsage(c) ==
  /\ caller[c].pc = "read_usage"
  /\ caller' = [caller EXCEPT ![c].pc = "write_usage", ![c].usage = power_usage]
  /\ UNCHANGED <<state, last_changed, power_usage, performance_stats, updater, reader,
                 overlap, seqFrame>>

\* the write half of "self.context['power_usage'] += total_power_change"
CallWriteUsage(c) ==
  /\ caller[c].pc = "write_usage"
  /\ power_usage' = caller[c].usage + caller[c].total_power_change
  /\ caller' = [caller EXCEPT ![c].pc = "check_limit"]
  /\ UNCHANGED <<state, last_changed, performance_stats, updater, reader, overlap, seqFrame>>

\* "if self.context['power_usage'] > self.thresholds['power_limit']" and the return
CallCheckLimit(c) ==
  /\ caller[c].pc = "check_limit"
  /\ caller' = [caller EXCEPT ![c] =
                  [IdleCaller(caller[c].calls + 1) EXCEPT !.warning = power_usage > power_limit]]
  /\ UNCHANGED <<state, last_changed, power_usage, performance_stats, updater, reader,
                 overlap, seqFrame>>

\* one turn of the generator inside sum(...): the next device's state is read
UpdaterSum ==
  /\ updater.pc = "sum"
  /\ LET d == DeviceOrder[updater.i]
         total == updater.total_power + (IF state[d] THEN power_consumption[d] ELSE 0)
     IN updater' = IF updater.i = Len(DeviceOrder)
                   THEN [pc |-> "store", i |-> 1, total_power |-> total]
                   ELSE [updater EXCEPT !.i = updater.i + 1, !.total_power = total]
  /\ UNCHANGED <<state, last_changed, power_usage, performance_stats, caller, reader,
                 overlap, seqFrame>>

\* "self.context['power_usage'] = total_power"
UpdaterStore ==
  /\ updater.pc = "store"
  /\ power_usage' = updater.total_power
  /\ updater' = [pc |-> "rules", i |-> 1, total_power |-> 0]
  /\ UNCHANGED <<state, last_changed, performance_stats, caller, reader, overlap, seqFrame>>

\* the rule loop; a rule's action runs here as one step
UpdaterRules ==
  /\ updater.pc = "rules"
  /\ LET acc == rule_loop([w |-> World, triggers |-> performance_stats.automation_triggers],
                          automation_rules, temperature, now)
     IN /\ Commit(acc.w)
        /\ performance_stats' = [performance_stats EXCEPT !.automation_triggers = acc.triggers]
  /\ updater' = [updater EXCEPT !.pc = "sleep"]
  /\ UNCHANGED <<caller, reader, overlap, seqFrame>>

\* a context updater that ends after its first iteration
UpdaterSleepOnce ==
  /\ updater.pc = "sleep"
  /\ updater' = [pc |-> "ended", i |-> 1, total_power |-> 0]
  /\ UNCHANGED <<state, last_changed, power_usage, performance_stats, caller, reader,
                 overlap, seqFrame>>

\* time.sleep(30), after which the next iteration starts
UpdaterSleep ==
  /\ updater.pc = "sleep"
  /\ updater' = [pc |-> "sum", i |-> 1, total_power |-> 0]
  /\ UNCHANGED <<state, last_changed, power_usage, performance_stats, caller, reader,
                 overlap, seqFrame>>

\* a call that has flipped a device and not yet added its delta to power_usage
Uncommitted(c) ==
  /\ caller[c].pc \in {"test", "flip", "read_usage", "write_usage"}
  /\ caller[c].responses # <<>>

\* api_status reads the device states room by room
ReaderReadDevices ==
  /\ reader.pc = "idle"
  /\ reader' = [pc |-> "read_usage", seen_state |-> state, seen_usage |-> 0,
                torn |-> \E c \in Callers : Uncommitted(c)]
  /\ UNCHANGED <<state, last_changed, power_usage, performance_stats, caller, updater,
                 overlap, seqFrame>>

\* api_status reads context['power_usage']
ReaderReadUsage ==
  /\ reader.pc = "read_usage"
  /\ reader' = [reader EXCEPT !.pc = "done", !.seen_usage = power_usage]
  /\ UNCHANGED <<state, last_changed, power_usage, performance_stats, caller, updater,
                 overlap, seqFrame>>

\* api_status returns what it read
ReaderReturn ==
  /\ reader.pc = "done"
  /\ reader' = IdleReader
  /\ UNCHANGED <<state, last_changed, power_usage, performance_stats, caller, updater,
                 overlap, seqFrame>>

\* the steps of the request threads, with the lists and settings they may pass
CallerSteps(threads, lists, settings) ==
  \/ \E c \in threads, device_names \in lists, desired \in settings :
        CallStart(c, device_names, desired)
  \/ \E c \in threads : CallTest(c)
  \/ \E c \in threads : CallFlip(c)
  \/ \E c \in threads : CallReadUsage(c)
  \/ \E c \in threads : CallWriteUsage(c)
  \/ \E c \in threads : CallCheckLimit(c)

UpdaterSteps ==
  \/ UpdaterSum
  \/ UpdaterStore
  \/ UpdaterRules
  \/ UpdaterSleep

ReaderSteps ==
  \/ ReaderReadDevices
  \/ ReaderReadUsage
  \/ ReaderReturn

\* the lists the request threads pass in the thread specifications
ThreadLists == SeqUpTo(Pool, MaxLen)

\* request threads beside the context updater
NextThreads == CallerSteps(Callers, ThreadLists, BOOLEAN) \/ UpdaterSteps

SpecThreads == Init /\ [][NextThreads]_vars

\* request threads beside a status reader
NextReaders == CallerSteps(Callers, ThreadLists, BOOLEAN) \/ ReaderSteps

SpecReaders == Init /\ [][NextReaders]_vars

\* one request thread that turns everything on or off ("turn on
\* everything") beside the context updater
NextLimit == CallerSteps({1}, {DeviceOrder}, BOOLEAN) \/ UpdaterSteps

SpecLimit == Init /\ [][NextLimit]_vars

\* one request thread that switches the first device, beside the context
\* updater
NextSettle == CallerSteps({1}, {<<DeviceOrder[1]>>}, BOOLEAN) \/ UpdaterSteps

\* the context updater thread is given its turn again and again
SpecSettle == Init /\ [][NextSettle]_vars /\ WF_vars(UpdaterSteps)

(* ------------------- the command queue and its processor --------------- *)
\* the most commands the producers put on the queue
MaxQueued == 3

\* the threads that put commands on self.command_queue
Producers == {1, 2}

\* the text of the queued commands
QueuedText == <<"t","u","r","n"," ","o","n"," ","t","h","e"," ","k","i","t","c","h","e","n"," ","l","i","g","h","t">>

\* what the language model does on the processor's calls: it fails (the
\* matcher answers), it answers with a number, it answers with an intent
\* the executor has no handler for
DrainOutcomes ==
  {o \in NluOutcomes : o.kind \in {"error", "scalar"} \/ o.payload.intent = "schedule"}

\* the commands of a producer among those put on the queue so far
Submitted(p) ==
  Cardinality({i \in DOMAIN command_queue : command_queue[i].producer = p})
    + Cardinality({i \in DOMAIN drained : drained[i].producer = p})
    + (IF processor.command.producer = p THEN 1 ELSE 0)

\* self.command_queue.put(command) by a producer, with or without a
\* callable under 'callback'
Enqueue(p, callback) ==
  /\ running
  /\ Len(command_queue) + Len(drained) + (IF processor.command = NoCommand THEN 0 ELSE 1)
       < MaxQueued
  /\ command_queue' = Append(command_queue,
                             [producer |-> p, seq |-> Submitted(p) + 1,
                              text |-> QueuedText, callback |-> callback])
  /\ UNCHANGED <<state, last_changed, power_usage, performance_stats, temperature,
                 gpio_simulation_mode, now, running, last_op, threadVars, pipelineVars,
                 processor, pump, drained>>

\* Queue.get() on a queue that is not empty, taking the newest item
queue_get_newest(queue) ==
  [item |-> queue[Len(queue)], rest |-> SubSeq(queue, 1, Len(queue) - 1)]

\* Queue.get() on a queue that is not empty: the oldest item leaves
queue_get(queue) == [item |-> Head(queue), rest |-> Tail(queue)]

\* an except clause that lets the exception end the thread
except_ends_thread(loop_top) == "ended"

\* "except Exception as e: print(...)" inside "while True": the message
\* is printed and the loop body starts again
except_clause(loop_top) == loop_top

\* _command_processor, "if not self.command_queue.empty()": an item is
\* taken, or the body goes on to its sleep
DrainPoll ==
  /\ running
  /\ processor.pc = "poll"
  /\ IF command_queue = <<>>
     THEN /\ processor' = [processor EXCEPT !.pc = "sleep"]
          /\ UNCHANGED command_queue
     ELSE /\ processor' = [processor EXCEPT !.pc = "process",
                                            !.command = queue_get(command_queue).item]
          /\ command_queue' = queue_get(command_queue).rest
  /\ UNCHANGED <<state, last_changed, power_usage, performance_stats, temperature,
                 gpio_simulation_mode, now, running, last_op, threadVars, pipelineVars,
                 pump, drained>>

\* _command_processor, the three statements on the command taken:
\* understand_command, execute_command and, if both returned, the callback
DrainProcess(outcome) ==
  /\ running
  /\ processor.pc = "process"
  /\ \E u \in {understand_command(response_cache, performance_stats,
                                  processor.command.text, outcome)} :
       LET executed == ~u.raised /\ Handled(u.action)
       IN /\ response_cache' = u.cache
          /\ performance_stats' =
               IF u.raised THEN u.stats
               ELSE [u.stats EXCEPT !.total_commands = @ + 1]
          /\ Commit(IF executed THEN execute_command(World, u.action, now) ELSE World)
          /\ index_keys' = execute_command_lookups(
                              IF u.fallback
                              THEN fast_pattern_match_lookups(index_keys, processor.command.text)
                              ELSE index_keys,
                              IF executed THEN u.action ELSE NoIntent)
          /\ drained' = Append(drained,
                               [producer |-> processor.command.producer,
                                seq |-> processor.command.seq,
                                callback |-> processor.command.callback,
                                understood |-> ~u.raised,
                                executed |-> executed,
                                callbacks |-> IF executed /\ processor.command.callback
                                              THEN 1 ELSE 0])
          /\ processor' = [processor EXCEPT !.pc = IF executed THEN "sleep" ELSE "except",
                                            !.command = NoCommand]
  /\ UNCHANGED <<temperature, gpio_simulation_mode, now, running, last_op, threadVars,
                 history, command_queue, pump>>

\* _command_processor, "time.sleep(0.1)", the last statement of the try
DrainSleep ==
  /\ running
  /\ processor.pc = "sleep"
  /\ processor' = [processor EXCEPT !.pc = "poll"]
  /\ UNCHANGED <<state, last_changed, power_usage, performance_stats, temperature,
                 gpio_simulation_mode, now, running, last_op, threadVars, pipelineVars,
                 command_queue, pump, drained>>

\* _command_processor, the except clause
DrainExcept ==
  /\ running
  /\ processor.pc = "except"
  /\ processor' = [processor EXCEPT !.pc = except_clause("poll"), !.failed = TRUE]
  /\ UNCHANGED <<state, last_changed, power_usage, performance_stats, temperature,
                 gpio_simulation_mode, now, running, last_op, threadVars, pipelineVars,
                 command_queue, pump, drained>>

DrainSteps ==
  DrainPoll \/ (\E outcome \in DrainOutcomes : DrainProcess(outcome)) \/ DrainSleep \/ DrainExcept

\* the jobs registered with the schedule module: the program registers none
scheduled_jobs == {}

\* the methods of SmartHomeAssistant a rule action could reach: the class
\* defines _activate_scene and _temperature_regulation, and neither
\* activate_scene nor _motion_activated_lights
class_methods == {"_activate_scene", "_temperature_regulation"}

\* rule['action'] of each rule: the method it calls on self, and the argument
rule_action ==
  [sunset_lights |-> [method |-> "activate_scene", arg |-> "evening_lights"],
   temperature_control |-> [method |-> "_temperature_regulation", arg |-> "cool"],
   motion_lights |-> [method |-> "_motion_activated_lights", arg |-> ""]]

\* _schedule_checker, "schedule.run_pending()": every registered job that
\* is due runs; with none registered the call changes nothing and returns
PumpRun ==
  /\ running
  /\ pump.pc = "run"
  /\ scheduled_jobs = {}
  /\ pump' = [pc |-> "sleep"]
  /\ UNCHANGED <<state, last_changed, power_usage, performance_stats, temperature,
                 gpio_simulation_mode, now, running, last_op, threadVars, pipelineVars,
                 command_queue, processor, drained>>

\* _schedule_checker, "time.sleep(60)"
PumpSleep ==
  /\ running
  /\ pump.pc = "sleep"
  /\ pump' = [pc |-> "run"]
  /\ UNCHANGED <<state, last_changed, power_usage, performance_stats, temperature,
                 gpio_simulation_mode, now, running, last_op, threadVars, pipelineVars,
                 command_queue, processor, drained>>

NextLoops ==
  \/ \E p \in Producers, callback \in BOOLEAN : Enqueue(p, callback)
  \/ DrainSteps
  \/ PumpRun
  \/ PumpSleep

\* producers, the command processor and the schedule checker side by side
SpecLoops == InitCommands /\ [][NextLoops]_vars

\* producers whose commands all carry a callback, and the command processor
NextDrain == (\E p \in Producers : Enqueue(p, TRUE)) \/ DrainSteps

\* the processor thread is given its turn again and again
SpecDrainFair == InitCommands /\ [][NextDrain]_vars /\ WF_vars(DrainSteps)


(* ======================================================================= *)
(*                                claims                                   *)
(* ======================================================================= *)

\* the rated power of a set of devices, added up
RECURSIVE PowerOf(_)
PowerOf(S) ==
  IF S = {} THEN 0
  ELSE LET d == CHOOSE x \in S : TRUE IN power_consumption[d] + PowerOf(S \ {d})

\* C2: whenever no handler is in the middle of its work, context['power_usage']
\* is the sum of the rated power of the devices that are on.
C2_PowerIsSumOfOn == power_usage = total_power(state)

\* C5 as stated: from every state and for every list of names, turning the
\* named devices on and then off leaves power_usage where it was.
C5_RoundTripRestoresPower ==
  \A device_names \in NameLists :
    LET w1 == control_devices(World, device_names, TRUE, now)
        w2 == control_devices(w1, device_names, FALSE, now)
    IN w2.power_usage = power_usage

\* C5 amended: turning the named devices on and then off leaves power_usage
\* at its earlier value less the rated power of the named devices that were
\* already on (so at its earlier value when none of them was on).
C5_RoundTripLosesAlreadyOn ==
  \A device_names \in NameLists :
    LET w1 == control_devices(World, device_names, TRUE, now)
        w2 == control_devices(w1, device_names, FALSE, now)
        already_on == {d \in Range(device_names) \cap Devices : state[d]}
    IN w2.power_usage = power_usage - PowerOf(already_on)

\* a controller call has just turned devices off and left a powered device
\* on beside a device that is off
C5_Witness ==
  /\ last_op = [op |-> "control_devices", arg |-> "off"]
  /\ \E d1, d2 \in Devices : state[d1] /\ power_consumption[d1] > 0 /\ ~state[d2]

\* C6: from every state and for every registered device d, toggling d twice
\* in a row brings d back to the on/off state it had.
C6_ToggleTwiceRestores ==
  \A d \in Devices :
    LET w1 == toggle_devices(World, <<d>>, now)
        w2 == toggle_devices(w1, <<d>>, now + 1)
    IN w2.state[d] = state[d]

\* a toggle has just run and left a device on and a device off
C6_Witness ==
  /\ last_op.op = "toggle_devices"
  /\ \E d1, d2 \in Devices : state[d1] /\ ~state[d2]

\* C7: when activating the sleep scene has completed, bedroom_light is off,
\* bedroom_ac and security_alarm are on, and activating it again changes no
\* device state, no timestamp and no power usage; the same holds of the
\* scene applied to any reachable state.
C7_SleepSceneAbsolute ==
  LET w1 == activate_scene(World, "sleep", now)
      SleepStates(st) == ~st["bedroom_light"] /\ st["bedroom_ac"] /\ st["security_alarm"]
  IN /\ SleepStates(w1.state)
     /\ activate_scene(w1, "sleep", now + 1) = w1
     /\ last_op = [op |-> "activate_scene", arg |-> "sleep"]
          => /\ SleepStates(state)
             /\ activate_scene(World, "sleep", now + 1) = World

\* the sleep scene has just been activated while other devices are on
C7_Witness ==
  /\ last_op = [op |-> "activate_scene", arg |-> "sleep"]
  /\ state["living_room_fan"] /\ state["bedroom_heater"]

\* the text of the UnknownScene outcome
UnknownSceneText ==
  <<"U","n","k","n","o","w","n"," ","s","c","e","n","e","."," ","A","v","a","i","l","a","b","l","e",":"," ","m","o","v","i","e","_","n","i","g","h","t",","," ","d","i","n","n","e","r",","," ","s","l","e","e","p",","," ","w","a","k","e","_","u","p",","," ","a","w","a","y">>

\* C8: a step that activates a scene name that is in no table returns the
\* "Unknown scene" text with all registered scene names and changes no
\* device state, no timestamp and no power usage.
C8_UnknownSceneChangesNothing ==
  [][\A scene_name \in SceneInputs \ SceneNames :
        last_op' = [op |-> "activate_scene", arg |-> scene_name]
          => /\ activate_scene_response(scene_name) = UnknownSceneText
             /\ state' = state
             /\ last_changed' = last_changed
             /\ power_usage' = power_usage]_vars

\* party_mode has just been asked for while devices are on
C8_Witness ==
  /\ last_op = [op |-> "activate_scene", arg |-> "party_mode"]
  /\ state["kitchen_light"]
  /\ power_usage > 0

\* the normalised text of a command: the cache key
Normalized(user_input) == Strip(Lower(user_input))

\* two intents agree on kind, devices, scene, value and reasoning
SameIntentFields(a, b) ==
  /\ \A k \in {"intent", "devices", "scene", "value", "reasoning"} : k \in a.keys <=> k \in b.keys
  /\ a.intent = b.intent
  /\ a.devices = b.devices
  /\ a.scene = b.scene
  /\ a.value = b.value
  /\ a.reasoning = b.reasoning

\* C4 (as stated): of two commands with the same normalised text, whatever
\* the language model did on the first, the second result carries the
\* cache-hit flag and has the intent fields of the first.
C4_SecondCallIsCacheHit ==
  \A i, j \in 1..Len(history) :
    (/\ i < j
     /\ ~history[i].raised
     /\ Normalized(history[i].user_input) = Normalized(history[j].user_input))
    => /\ ~history[j].raised
       /\ "from_cache" \in history[j].action.keys
       /\ history[j].action.from_cache
       /\ SameIntentFields(history[i].action, history[j].action)

\* C4 (amended): of two commands with the same normalised text, when the
\* first result came from the language model's parsed answer or from the
\* cache, and not from the fallback matcher, the second result carries the
\* cache-hit flag and has the intent fields of the first.
C4_SecondCallIsCacheHitUnlessFallback ==
  \A i, j \in 1..Len(history) :
    (/\ i < j
     /\ ~history[i].raised
     /\ ~history[i].fallback
     /\ Normalized(history[i].user_input) = Normalized(history[j].user_input))
    => /\ ~history[j].raised
       /\ "from_cache" \in history[j].action.keys
       /\ history[j].action.from_cache
       /\ SameIntentFields(history[i].action, history[j].action)

\* two commands that differ in case and blanks only: the first answered by
\* the language model, the second from the cache
C4_Witness ==
  \E i, j \in 1..Len(history) :
    /\ i < j
    /\ history[i].outcome = "embedded"
    /\ history[i].user_input # history[j].user_input
    /\ Normalized(history[i].user_input) = Normalized(history[j].user_input)
    /\ history[j].action.from_cache
    /\ history[j].action.intent = "turn_on"

\* the devices a text names: one of the device's keywords is in the text
NamedDevices(text) == {d \in Devices : AnyIn(device_keywords(d), text)}

\* of every command text: the devices it names, whether it has a turn-on
\* keyword, and whether it has a scene name or one of the words for "all"
TextFacts ==
  [t \in Texts |->
     [named |-> NamedDevices(Lower(t)),
      turn_on |-> AnyIn(patterns[1].keywords, Lower(t)),
      scene_or_all |-> matching_scenes(Lower(t)) # <<>> \/ AnyIn(KW.all, Lower(t))]]

\* a command the fallback matcher handled because the language model was
\* unavailable and the cache had no entry, whose text has a turn-on
\* keyword and names the one device d
TurnOnOneDevice(e, d) ==
  /\ e.outcome = "error"
  /\ e.missed
  /\ TextFacts[e.user_input].turn_on
  /\ TextFacts[e.user_input].named = {d}

\* the report "Turned on: <device name with spaces>"
TurnedOnText(d) == STR.Turned \o STR.on \o <<":", " ">> \o Replace(Chars[d], "_", " ")

C1_NoLostPowerUpdate ==
  (/\ \A c \in Callers : caller[c].pc = "idle"
   /\ updater.pc = "sleep"
   /\ ~overlap)
  => power_usage = total_power(state)

\* C3: what a status reader has read is never torn: it did not read the
\* registry while a call had flipped devices without having added their
\* delta, and the power usage it read is the sum over the device states
\* it read.
C3_ReadersSeeWholeBatches ==
  reader.pc = "done"
    => /\ ~reader.torn
       /\ reader.seen_usage = total_power(reader.seen_state)

\* C9: when a call that turned devices on returns while the devices that
\* are on draw more than the power limit, its text has the warning and
\* every registered device it named is on.
C9_WarningWheneverOverLimit ==
  [][\A c \in Callers :
        (/\ caller[c].pc = "check_limit"
         /\ caller'[c].pc = "idle"
         /\ caller[c].desired
         /\ caller[c].responses # <<>>
         /\ total_power(state) > power_limit)
        => /\ caller'[c].warning
           /\ \A d \in Targets(caller[c].device_names) : state[d]]_vars

\* C12: a command that goes to the fallback matcher leaves the keys of the
\* two indexes and the response cache as they were, counts one cache miss
\* and one command, and leaves the devices and the context as executing
\* the matcher's intent on the earlier devices and context leaves them:
\* the matcher's own call changed nothing.
C12_MatcherChangesNothing ==
  [][(/\ Len(history') = Len(history) + 1
      /\ history'[Len(history')].fallback)
     => /\ index_keys' = index_keys
        /\ response_cache' = response_cache
        /\ performance_stats' = [performance_stats EXCEPT !.cache_misses = @ + 1,
                                                          !.total_commands = @ + 1]
        /\ temperature' = temperature
        /\ [state |-> state', last_changed |-> last_changed', power_usage |-> power_usage']
             = execute_command(World, history'[Len(history')].action, now')]_vars

\* the matcher has gone through its room loop for "kitchen off" while the
\* kitchen light was on
C12_Witness ==
  \E i \in 1..Len(history) :
    /\ history[i].fallback
    /\ history[i].action.intent = "turn_off"
    /\ history[i].action.devices = <<"kitchen_light", "kitchen_exhaust">>
    /\ "kitchen_light" \in history[i].on_before

\* C13: a command changes the response cache exactly when its key was not
\* in the cache and the language model's answer parsed to an intent
\* object; the cache then holds that intent, with the command's text added
\* to it, under the key.  A command the fallback matcher answered leaves
\* the cache as it was.
C13_CachedIffParsed ==
  [][Len(history') = Len(history) + 1
     => LET e == history'[Len(history')]
            key == Strip(Lower(e.user_input))
        IN /\ (response_cache' # response_cache) = (e.missed /\ e.outcome \in {"object", "embedded"})
           /\ (e.missed /\ e.outcome \in {"object", "embedded"})
                => /\ ~e.fallback
                   /\ cache_has(response_cache', key)
                   /\ cache_get(response_cache', key) = e.action
           /\ e.fallback => response_cache' = response_cache]_vars

\* one command was answered by the matcher and left the cache empty, and
\* a later one was answered by the language model and is in the cache
C13_Witness ==
  \E i, j \in 1..Len(history) :
    /\ i < j
    /\ history[i].fallback
    /\ history[j].missed
    /\ history[j].outcome = "object"
    /\ Len(response_cache) = 1
    /\ response_cache[1].value = history[j].action

\* C14: a command whose key the cache lacks and for which the language
\* model fails, answers nothing, answers text that is not JSON, or answers
\* JSON that is no intent object (a number, a string, a list, null) is
\* understood without a failure, as the fallback matcher understands its
\* text.
C14_EveryBadAnswerFallsBack ==
  \A i \in 1..Len(history) :
    (/\ history[i].missed
     /\ history[i].outcome \in {"error", "empty", "garbage", "scalar", "falsy"})
    => /\ ~history[i].raised
       /\ history[i].fallback
       /\ history[i].action.intent \in Intents

\* C15: a command that was understood without a failure was executed and
\* got a text back, whichever of the nine kinds its intent has.
C15_EveryKindExecuted ==
  \A i \in 1..Len(history) :
    (~history[i].raised /\ history[i].action.intent \in Intents)
    => /\ history[i].executed
       /\ history[i].response # <<>>

\* C16: executing an intent of kind unknown or clarify that carries a
\* reasoning returns that reasoning, character for character, and leaves
\* every device's state and last-changed time, the power usage and the
\* temperature as they were.
C16_ReasoningReturnedNothingChanged ==
  [][(/\ Len(history') = Len(history) + 1
      /\ history'[Len(history')].executed
      /\ history'[Len(history')].action.intent \in {"unknown", "clarify"}
      /\ "reasoning" \in history'[Len(history')].action.keys)
     => /\ history'[Len(history')].response = history'[Len(history')].action.reasoning
        /\ state' = state
        /\ last_changed' = last_changed
        /\ power_usage' = power_usage
        /\ temperature' = temperature]_vars

\* the kitchen light was turned on by one command, and the next, a clarify
\* intent, got its reasoning back
C16_Witness ==
  /\ Len(history) = 2
  /\ history[2].executed
  /\ history[2].action.intent = "clarify"
  /\ history[2].response = STR.ReasonClarify
  /\ state["kitchen_light"]
  /\ last_changed["kitchen_light"] = 1
  /\ now = 2

\* C17: executing a turn_on or turn_off intent returns a text, leaves every
\* registered device its list names on, respectively off, whatever other
\* names the list holds, leaves every other device's state and
\* last-changed time as they were, and adds no device to the registry.
C17_BatchSkipsUnregisteredNames ==
  [][(/\ Len(history') = Len(history) + 1
      /\ history'[Len(history')].executed
      /\ history'[Len(history')].action.intent \in {"turn_on", "turn_off"})
     => LET e == history'[Len(history')]
            named == {e.action.devices[k] : k \in 1..Len(e.action.devices)}
        IN /\ e.response # <<>>
           /\ DOMAIN state' = Devices
           /\ \A d \in Devices :
                IF d \in named
                THEN state'[d] = (e.action.intent = "turn_on")
                ELSE state'[d] = state[d] /\ last_changed'[d] = last_changed[d]]_vars

\* the batch <<bedroom_ac, garage_door, kitchen_light>>, whose second name
\* the registry lacks, was turned off while the kitchen light was on
C17_Witness ==
  \E i \in 1..Len(history) :
    /\ history[i].executed
    /\ history[i].action.intent = "turn_off"
    /\ history[i].action.devices = <<"bedroom_ac", UnknownDevice, "kitchen_light">>
    /\ "kitchen_light" \in history[i].on_before
    /\ i = Len(history)
    /\ ~state["kitchen_light"]
    /\ last_changed["kitchen_light"] = now

\* C18: the response cache never holds more than 100 entries.
C18_CacheWithinCapacity == Len(response_cache) <= 100

\* C19: a store that finds more than 100 entries in the cache removes the
\* 20 entries inserted first, whether or not they were looked up since,
\* keeps the others in their order and puts the new entry after them.
C19_StoreEvictsEarliestTwenty ==
  [][(/\ Len(response_cache) > 100
      /\ performance_stats'.cache_misses = performance_stats.cache_misses + 1)
     => LET text == KeyText(performance_stats'.cache_misses)
        IN /\ Len(response_cache') = Len(response_cache) - 20 + 1
           /\ \A i \in 1..20 : ~cache_has(response_cache', response_cache[i].key)
           /\ \A i \in 21..Len(response_cache) : response_cache'[i - 20] = response_cache[i]
           /\ response_cache'[Len(response_cache')]
                = [key |-> Strip(Lower(text)),
                   value |-> with_raw_input(NluIntents.clarify, text)]]_vars

\* the store that found 101 entries has just run, after the entry
\* inserted first had been looked up: entries 21 to 102 are left
C19_Witness ==
  /\ last_op = [op |-> "command", arg |-> "miss"]
  /\ performance_stats.cache_hits > 0
  /\ performance_stats.cache_misses = 102
  /\ Len(response_cache) = 82
  /\ response_cache[1].value.raw_input = KeyText(21)
  /\ response_cache[82].value.raw_input = KeyText(102)

\* C20: a command whose key the cache holds gets the stored intent marked
\* from_cache, and the cache, the stored intent included, is as it was: no
\* stored intent ever carries the mark.
C20_HitLeavesStoredEntry ==
  [][(/\ Len(history') = Len(history) + 1
      /\ ~history'[Len(history')].missed)
     => LET e == history'[Len(history')]
            key == Strip(Lower(e.user_input))
        IN /\ response_cache' = response_cache
           /\ "from_cache" \in e.action.keys
           /\ e.action.from_cache
           /\ "from_cache" \notin cache_get(response_cache', key).keys
           /\ e.action = [cache_get(response_cache, key) EXCEPT !.keys = @ \cup {"from_cache"},
                                                                !.from_cache = TRUE]]_vars

\* a command has been answered from the cache
C20_Witness ==
  \E i \in 1..Len(history) :
    /\ ~history[i].missed
    /\ history[i].action.from_cache
    /\ history[i].executed
    /\ Len(response_cache) = 1

\* C26: the action of the temperature rule, _temperature_regulation('cool'),
\* run again right after it ran, with nothing in between, leaves every
\* device state and the power usage as the first run left them.
C26_CoolTwiceIsCoolOnce ==
  [][(/\ last_op = [op |-> "temperature_regulation", arg |-> "cool"]
      /\ last_op' = [op |-> "temperature_regulation", arg |-> "cool"])
     => /\ state' = state
        /\ power_usage' = power_usage]_vars

\* cooling has run: the air conditioner and the fan are on, the heater is
\* off
C26_Witness ==
  /\ last_op = [op |-> "temperature_regulation", arg |-> "cool"]
  /\ \A d \in Devices : device_type[d] \in {"ac", "fan"} => state[d]
  /\ \A d \in Devices : device_type[d] = "heater" => ~state[d]
  /\ power_usage > 0

\* the step of the six whose condition is the first to hold for a text in
\* lower case: 1 a scene name, 2 an on/off/toggle keyword and a device,
\* 3 a room keyword, 4 a word for hot or cold, 5 a status word, 6 none
FirstStep(text) ==
  IF \E s \in SceneNames : Contains(text, Replace(Chars[s], "_", " ")) THEN 1
  ELSE IF /\ \E i \in 1..Len(patterns) : AnyIn(patterns[i].keywords, text)
          /\ \/ AnyIn(KW.all, text)
             \/ \E d \in Devices : AnyIn(device_keywords(d), text)
  THEN 2
  ELSE IF \E i \in 1..Len(room_keywords) :
            /\ Contains(text, room_keywords[i].keyword)
            /\ \E d \in Devices :
                 /\ room[d] = room_keywords[i].room
                 /\ Contains(text, KW.light) => device_type[d] = "light"
  THEN 3
  ELSE IF AnyIn(KW.hot, text) \/ AnyIn(KW.cold, text) THEN 4
  ELSE IF AnyIn(KW.status, text) THEN 5
  ELSE 6

\* of every matcher text: its first step
StepFacts == [t \in MatcherTexts |-> FirstStep(Lower(t))]

\* the kinds of intent a step returns
StepIntents ==
  <<{"activate_scene"}, {"turn_on", "turn_off", "toggle"}, {"turn_on", "turn_off"},
    {"set_temperature"}, {"check_status"}, {"unknown"}>>

\* C29: for every text the matcher returns an intent, of the kind of the
\* first of the six steps whose condition the text meets: the scene whose
\* name is in the text whatever else is in it, and unknown with confidence
\* 0.1 when it meets none.
C29_FirstStepWins ==
  \A i \in 1..Len(history) :
    LET e == history[i]
        step == StepFacts[e.user_input]
    IN /\ e.action.intent \in StepIntents[step]
       /\ step = 1 => Contains(Lower(e.user_input), Replace(Chars[e.action.scene], "_", " "))
       /\ step = 6 => e.action.confidence = 10
       /\ step \in {2, 3} => e.action.devices # <<>>

\* a text with a scene name, a turn-on keyword and a device name got the
\* scene; a text with a turn-on keyword and no device got unknown
C29_Witness ==
  /\ Len(history) = 2
  /\ history[1].action.intent = "activate_scene"
  /\ history[1].action.scene = "movie_night"
  /\ AnyIn(patterns[1].keywords, Lower(history[1].user_input))
  /\ AnyIn(device_keywords("kitchen_light"), Lower(history[1].user_input))
  /\ history[2].action.intent = "unknown"
  /\ AnyIn(patterns[1].keywords, Lower(history[2].user_input))

\* C30 (as stated): every intent but unknown has confidence 1.0 without the
\* fallback flag and 0.5 with it, less 0.02 exactly when the room step
\* returned it.
C30_ConfidenceFromFlag ==
  \A i \in 1..Len(history) :
    LET e == history[i]
        base == IF e.is_fallback THEN 50 ELSE 100
    IN e.action.intent # "unknown"
       => e.action.confidence = (IF StepFacts[e.user_input] = 3 THEN base - 2 ELSE base)

\* C30 (amended): an intent of the scene step or the keyword step has
\* confidence 1.0 without the fallback flag and 0.5 with it, one of the room
\* step 0.98 and 0.48; one of the temperature step has 0.8 and one of the
\* status step 0.9 whatever the flag is.
C30_ConfidenceFromFlagAndStep ==
  \A i \in 1..Len(history) :
    LET e == history[i]
        base == IF e.is_fallback THEN 50 ELSE 100
        step == StepFacts[e.user_input]
    IN e.action.intent # "unknown"
       => e.action.confidence = (CASE step \in {1, 2} -> base
                                   [] step = 3 -> base - 2
                                   [] step = 4 -> 80
                                   [] step = 5 -> 90)

\* the room step has answered with the flag and a keyword step without it
C30_Witness ==
  /\ Len(history) = 2
  /\ StepFacts[history[1].user_input] = 3
  /\ history[1].is_fallback
  /\ history[1].action.confidence = 48
  /\ StepFacts[history[2].user_input] = 2
  /\ ~history[2].is_fallback
  /\ history[2].action.confidence = 100

\* the rules of a table that fire at a temperature: those that are
\* enabled, are condition-triggered and whose predicate holds
Firing(table, temp) ==
  {i \in 1..Len(RuleTables[table]) :
     /\ RuleTables[table][i].enabled
     /\ RuleTables[table][i].trigger = "condition"
     /\ RuleTables[table][i].name = "temperature_control"
     /\ temp > temp_comfort_max}

\* C24: an iteration of the context updater adds to the automation-trigger
\* counter the number of rules that are enabled, condition-triggered and
\* whose predicate holds then, and leaves the devices as the action of
\* those rules leaves them after the power usage was recomputed; it does
\* so in every iteration the predicate holds in, and never for a rule
\* that is disabled.
C24_RulesFireIffEnabledAndTrue ==
  [][now' = now + 1
     => LET fired == Firing(last_op'.arg, temperature)
            refreshed == [World EXCEPT !.power_usage = PowerOf({d \in Devices : state[d]})]
        IN /\ performance_stats'.automation_triggers
                = performance_stats.automation_triggers + Cardinality(fired)
           /\ [state |-> state', last_changed |-> last_changed', power_usage |-> power_usage']
                = IF fired = {} THEN refreshed
                  ELSE temperature_regulation(refreshed, "cool", now')]_vars

\* the temperature rule has fired in two iterations in a row and, with
\* its flag cleared, not in the third
C24_Witness ==
  /\ now = 3
  /\ temperature > temp_comfort_max
  /\ performance_stats.automation_triggers = 2
  /\ last_op = [op |-> "context_updater", arg |-> "temperature_control_off"]
  /\ state["bedroom_ac"]

\* C21: a failure inside an iteration of a background loop is caught and
\* the loop goes on: whenever the command processor is in its except
\* clause, it is later at the top of its loop again, about to run another
\* iteration.  (In the program only the processor's iterations can fail:
\* the schedule checker has no job to run and no rule action raises.)
C21_FailedIterationIsFollowedByAnother ==
  (processor.pc = "except") ~> (processor.pc = "poll")

\* the processor has had a failed iteration and is handling a further command
C21_Witness == processor.failed /\ processor.pc = "process"

\* C22: two commands of the same producer are interpreted and executed in
\* the order the producer queued them, whatever other producers queued in
\* between.
C22_SameProducerInOrder ==
  \A i, j \in DOMAIN drained :
    (i < j /\ drained[i].producer = drained[j].producer) => drained[i].seq < drained[j].seq

\* two commands of producer 1 have been handled, one of producer 2 between them
C22_Witness ==
  /\ Len(drained) = 3
  /\ drained[1].producer = 1 /\ drained[2].producer = 2 /\ drained[3].producer = 1
  /\ drained[1].seq = 1 /\ drained[3].seq = 2

\* C23 as stated: a command taken off the queue that carries a callable
\* callback has had that callback invoked exactly once, also when
\* interpreting or executing it failed.
C23_CallbackInvokedOnce ==
  \A i \in DOMAIN drained : drained[i].callback => drained[i].callbacks = 1

\* C25 as stated: when the schedule checker has run the pending jobs, every
\* enabled time-triggered rule was registered as a job, its action calls a
\* method the class defines, and the scene it names is a registered scene.
C25_TimeRulesRegisteredAndRunnable ==
  pump.pc = "sleep" =>
    \A i \in DOMAIN automation_rules :
      LET rule == automation_rules[i]
      IN (rule.enabled /\ rule.trigger = "time") =>
           /\ rule.name \in scheduled_jobs
           /\ rule_action[rule.name].method \in class_methods
           /\ rule_action[rule.name].arg \in SceneNames

\* C27 as stated: after a failed iteration the loop sleeps its period
\* before the next iteration: the step that leaves the except clause
\* leads to the sleep.
C27_FailedIterationSleeps ==
  [][(processor.pc = "except" /\ processor'.pc # "except") => processor'.pc = "sleep"]_vars

\* C28: once the request threads make no more changes, the context
\* updater, given its turns, brings power_usage to the sum of the rated
\* power of the devices that are on, and it stays there, whatever the
\* deltas had left in it.
C28_PowerSettles == <>[](power_usage = total_power(state))

\* the request thread has made its last call and power_usage is not the
\* sum of the devices that are on
C28_Witness ==
  /\ caller[1].pc = "idle"
  /\ caller[1].calls = MaxCalls
  /\ power_usage # total_power(state)

\* C31 as stated: an intent the room step returns is turn_on only when the
\* text has a turn-on keyword and turn_off only when it has a turn-off
\* keyword, and its devices are the lights of the room when the text
\* speaks of lights and all devices of the room otherwise.
C31_RoomIntentFromKeywords ==
  \A i \in 1..Len(history) :
    LET e == history[i]
        text == Lower(e.user_input)
    IN StepFacts[e.user_input] = 3 =>
         /\ e.action.intent = "turn_on" => AnyIn(patterns[1].keywords, text)
         /\ e.action.intent = "turn_off" => AnyIn(patterns[2].keywords, text)
         /\ \E k \in 1..Len(room_keywords) :
               /\ Contains(text, room_keywords[k].keyword)
               /\ {e.action.devices[n] : n \in 1..Len(e.action.devices)}
                    = {d \in Devices :
                         room[d] = room_keywords[k].room
                           /\ (Contains(text, KW.light) => device_type[d] = "light")}

\* C32: from every state, for every list callers pass and either setting, a
\* call of _control_devices leaves a named device that is already in the
\* desired state with its timestamp, changes power_usage by the draw of
\* the devices it switched only, and a second identical call right after
\* it, at a later time, switches nothing, changes nothing and returns
\* "No devices were changed."
C32_SecondIdenticalCallChangesNothing ==
  \A device_names \in CallLists, desired \in BOOLEAN :
    \A first \in {control_changes(World, device_names, desired, now + 1)} :
      \A w1 \in {control_commit(World, first)} :
        \A second \in {control_changes(w1, device_names, desired, now + 2)} :
          LET switched == {d \in Range(device_names) \cap Devices : state[d] # desired}
          IN /\ Range(first.responses) = switched
             /\ \A d \in Devices \ switched :
                   w1.state[d] = state[d] /\ w1.last_changed[d] = last_changed[d]
             /\ w1.power_usage
                  = power_usage + (IF desired THEN PowerOf(switched) ELSE 0 - PowerOf(switched))
             /\ second.responses = <<>>
             /\ control_commit(w1, second) = w1
             /\ control_text(second, desired, w1.power_usage) = STR.NoDevicesChanged

\* a controller call has just turned devices on; of two names a caller may
\* pass, one is on and one is off
C32_Witness ==
  /\ last_op = [op |-> "control_devices", arg |-> "on"]
  /\ state["living_room_light"]
  /\ ~state["bedroom_ac"]

\* C33 as stated: every step that changes the on/off state of a device is
\* a step of the device controller, stamps the device with the time of the
\* step and changes power_usage by the draw of the devices it switched;
\* the shutdown cleanup included.
C33_EveryChangeThroughController ==
  [][LET turned_on == {d \in Devices : ~state[d] /\ state'[d]}
         turned_off == {d \in Devices : state[d] /\ ~state'[d]}
     IN (turned_on \cup turned_off # {}) =>
          /\ last_op'.op # "cleanup"
          /\ \A d \in turned_on \cup turned_off : last_changed'[d] = now'
          /\ power_usage' = power_usage + PowerOf(turned_on) - PowerOf(turned_off)]_vars

\* C34: from every state, when _activate_scene('away') has run, every
\* device of type light is off and security_alarm and front_door_lock are
\* on; so it is in the state an activation of the scene has just left.
C34_AwaySwitchesEveryLightOff ==
  LET Away(st) == /\ \A d \in Devices : device_type[d] = "light" => ~st[d]
                  /\ st["security_alarm"]
                  /\ st["front_door_lock"]
  IN /\ Away(activate_scene(World, "away", now + 1).state)
     /\ last_op = [op |-> "activate_scene", arg |-> "away"] => Away(state)

\* the away scene has just been activated while devices it does not cover
\* are on
C34_Witness ==
  /\ last_op = [op |-> "activate_scene", arg |-> "away"]
  /\ state["living_room_fan"] /\ state["bedroom_ac"]

\* the devices a registered scene names or covers by 'all_lights'
SceneCovers(scene_name) ==
  LET items == scenes[scene_name].devices
  IN {d \in Devices : \E i \in 1..Len(items) :
        items[i][1] = d \/ (items[i][1] = "all_lights" /\ device_type[d] = "light")}

\* C35: from every state and for every registered scene, _activate_scene
\* leaves the state and the timestamp of every device the scene neither
\* names nor covers, and changes power_usage by the draw of the devices it
\* switched on less the draw of the devices it switched off.
C35_SceneTouchesOnlyItsDevices ==
  \A scene_name \in SceneNames :
    \A w1 \in {activate_scene(World, scene_name, now + 1)} :
      /\ \A d \in Devices \ SceneCovers(scene_name) :
            w1.state[d] = state[d] /\ w1.last_changed[d] = last_changed[d]
      /\ \A d \in Devices : w1.state[d] # state[d] <=> w1.last_changed[d] = now + 1
      /\ w1.power_usage = power_usage + PowerOf({d \in Devices : ~state[d] /\ w1.state[d]})
                                      - PowerOf({d \in Devices : state[d] /\ ~w1.state[d]})

\* a scene has just been activated that switched a device on, while a
\* device it does not cover is on
C35_Witness ==
  /\ last_op = [op |-> "activate_scene", arg |-> "dinner"]
  /\ state["kitchen_exhaust"]
  /\ state["bedroom_heater"]

\* C36 as stated: in every state, whatever the threads have done so far,
\* power_usage is at least 0 and at most the rated power of all registered
\* devices together.
C36_PowerWithinBounds ==
  /\ power_usage >= 0
  /\ power_usage <= PowerOf(Devices)

\* C37 as stated: of two calls of the controller that overlap and ask for
\* the same setting, at most one has switched a given device and counted
\* its draw: the draw is counted once for each change of the device.
C37_DrawCountedOncePerChange ==
  \A c1, c2 \in Callers :
    (c1 # c2 /\ InCall(c1) /\ InCall(c2) /\ caller[c1].desired = caller[c2].desired)
      => \A d \in Devices :
           ~(\E i \in 1..Len(caller[c1].responses) : caller[c1].responses[i] = d)
             \/ ~(\E j \in 1..Len(caller[c2].responses) : caller[c2].responses[j] = d)

====
